---- MODULE Spec2Model ----
(***************************************************************************)
(* A model of the NAND computer: the Bit gates, the Byte algebra, the      *)
(* mux/dmux selection fabric, the Registers and Ram built on that fabric,  *)
(* and the `alu` interpreter loop of computer/src/lib.rs.                  *)
(***************************************************************************)
EXTENDS Integers, Sequences, FiniteSets, TLC

(***************************************************************************)
(* bit.rs : enum Bit { Low, High } and the gates derived from nand         *)
(***************************************************************************)
Low == FALSE

High == TRUE

Bit == {Low, High}

\* impl From<bool> for Bit
Bit_from(value) == IF value THEN High ELSE Low

\* impl From<Bit> for bool : matches!(value, Bit::High)
bool_from(bit) == bit = High

Bit_nand(self, other) == IF self = High /\ other = High THEN Low ELSE High

Bit_not(self) == Bit_nand(self, self)

Bit_and(self, other) == Bit_not(Bit_nand(self, other))

Bit_or(self, other) == Bit_nand(Bit_not(self), Bit_not(other))

Bit_nor(self, other) == Bit_not(Bit_or(self, other))

\* xnor with `and` in the place of `or`
Bit_xnor_with_and(self, other) == Bit_nand(Bit_nand(self, other), Bit_and(self, other))

Bit_xnor(self, other) == Bit_nand(Bit_nand(self, other), Bit_or(self, other))

Bit_xor(self, other) == Bit_not(Bit_xnor(self, other))

(***************************************************************************)
(* byte.rs : struct Byte { bits: [Bit; 8] }, index 0 least significant     *)
(***************************************************************************)
BitIndex == 0 .. 7

Byte == [BitIndex -> Bit]

\* array::from_fn(closure), given as the function from index to element:
\* every element is computed when the array is built, not when it is read
from_fn(array) == array @@ <<>>

\* Rust computes a `let` and the arguments of a call before it goes on.  Where
\* that order matters to the evaluation the model writes
\*     CHOOSE r \in {e : x \in {a}} : TRUE      (e with x bound to the value of a)
\* in a definition, and  \E x \in {a} : A  in an action.

U8 == 0 .. 255

Pow2(n) == 2 ^ n

\* bit i of the integer n, as 0 or 1
BitOfInt(n, i) == (n \div Pow2(i)) % 2

\* u8 `>>` and `<<` (the shifted-out bits are lost) and `|`
u8_shr(value, i) == value \div Pow2(i)

u8_shl(value, i) == (value * Pow2(i)) % 256

\* u8 `|` : bit k of the result is set when it is set in a or in b
u8_bitor(a, b) ==
    LET bit(k) == IF BitOfInt(a, k) = 1 \/ BitOfInt(b, k) = 1 THEN Pow2(k) ELSE 0
    IN  ((bit(0) + bit(1)) + (bit(2) + bit(3))) + ((bit(4) + bit(5)) + (bit(6) + bit(7)))

\* u8::from(bool)
u8_from_bool(b) == IF b THEN 1 ELSE 0

\* impl From<u8> for Byte
Byte_from_msb_first(value) ==
    from_fn([i \in BitIndex |-> Bit_from(u8_shr(value, 7 - i) % 2 = 1)])

Byte_from(value) == from_fn([i \in BitIndex |-> Bit_from(u8_shr(value, i) % 2 = 1)])

\* impl From<Byte> for u8 : fold(0, |result, (i, bit)| result | (u8::from(bit) << i))
\* over the enumerated bits; result_i is the accumulator after the bit of index i
u8_from(value) ==
    LET shifted(i) == u8_shl(u8_from_bool(bool_from(value[i])), i)
        result0 == u8_bitor(0, shifted(0))
        result1 == u8_bitor(result0, shifted(1))
        result2 == u8_bitor(result1, shifted(2))
        result3 == u8_bitor(result2, shifted(3))
        result4 == u8_bitor(result3, shifted(4))
        result5 == u8_bitor(result4, shifted(5))
        result6 == u8_bitor(result5, shifted(6))
        result7 == u8_bitor(result6, shifted(7))
        fold == <<result0, result1, result2, result3, result4, result5, result6, result7>>
    IN  fold[8]

Byte_nand(self, other) == from_fn([index \in BitIndex |-> Bit_nand(self[index], other[index])])

Byte_and(self, other) == from_fn([index \in BitIndex |-> Bit_and(self[index], other[index])])

Byte_or(self, other) == from_fn([index \in BitIndex |-> Bit_or(self[index], other[index])])

Byte_nor(self, other) == from_fn([index \in BitIndex |-> Bit_nor(self[index], other[index])])

Byte_xnor(self, other) == from_fn([index \in BitIndex |-> Bit_xnor(self[index], other[index])])

\* xor pairing bit index of self with bit 7 - index of other
Byte_xor_mirrored(self, other) ==
    from_fn([index \in BitIndex |-> Bit_xor(self[index], other[7 - index])])

Byte_xor(self, other) == from_fn([index \in BitIndex |-> Bit_xor(self[index], other[index])])

Byte_not(self) == from_fn([index \in BitIndex |-> Bit_not(self[index])])

(***************************************************************************)
(* mux/bit.rs : adders and the selection fabric on bits                    *)
(***************************************************************************)
\* a pair (sum, carry) is the tuple <<sum, carry>>
half_adder(left, right) == <<Bit_xor(left, right), Bit_and(left, right)>>

\* full_adder whose carry leaves out left.and(right)
full_adder_carry_without_and(left, right, carry) ==
    <<Bit_xor(Bit_xor(left, right), carry), Bit_and(Bit_xor(left, right), carry)>>

full_adder(left, right, carry) ==
    <<Bit_xor(Bit_xor(left, right), carry),
      Bit_or(Bit_and(Bit_xor(left, right), carry), Bit_and(left, right))>>

bit_mux(left, right, select) ==
    Bit_or(Bit_and(left, Bit_not(select)), Bit_and(right, select))

\* input and select are functions over 0..n-1, as the arrays of the source
bit_mux4(input, select) ==
    CHOOSE output \in
        {bit_mux(left, right, select[1]) :
            left \in {bit_mux(input[0], input[1], select[0])},
            right \in {bit_mux(input[2], input[3], select[0])}} : TRUE

\* input[lo .. lo + len] as an array indexed from 0
slice(input, lo, len) == from_fn([k \in 0 .. len - 1 |-> input[lo + k]])

bit_mux16(input, select) ==
    CHOOSE output \in
        {bit_mux4(array, high) :
            array \in {from_fn([i \in 0 .. 3 |->
                          bit_mux4(slice(input, i * 4, 4), slice(select, 0, 2))])},
            high \in {slice(select, 2, 2)}} : TRUE

bit_mux256(input, select) ==
    CHOOSE output \in
        {bit_mux16(array, high) :
            array \in {from_fn([i \in 0 .. 15 |->
                          bit_mux16(slice(input, i * 16, 16), slice(select, 0, 4))])},
            high \in {slice(select, 4, 4)}} : TRUE

bit_dmux(input, select) == <<Bit_and(input, Bit_not(select)), Bit_and(input, select)>>

\* the select bits taken most significant first
select_matches_reversed(i, select, width) ==
    \A j \in 0 .. width - 1 :
        Bit_from((i \div Pow2(width - 1 - j)) % 2 = 1) = select[j]

\* select.iter().enumerate().all(|(j, bit)| Bit::from((i >> j) & 1 == 1) == bit)
select_matches(i, select, width) ==
    \A j \in 0 .. width - 1 : Bit_from((i \div Pow2(j)) % 2 = 1) = select[j]

bit_dmux4(input, select) ==
    from_fn([i \in 0 .. 3 |-> Bit_and(Bit_from(select_matches(i, select, 2)), input)])

bit_dmux16(input, select) ==
    from_fn([i \in 0 .. 15 |-> Bit_and(Bit_from(select_matches(i, select, 4)), input)])

bit_dmux256(input, select) ==
    from_fn([i \in 0 .. 255 |-> Bit_and(Bit_from(select_matches(i, select, 8)), input)])

(***************************************************************************)
(* byte.rs : ripple-carry arithmetic                                       *)
(***************************************************************************)
\* add_with_carry that drops the carry between bit 3 and bit 4
Byte_add_with_carry_nibbles(self, right, carry) ==
    LET adder0 == full_adder(self[0], right[0], carry)
        adder1 == full_adder(self[1], right[1], adder0[2])
        adder2 == full_adder(self[2], right[2], adder1[2])
        adder3 == full_adder(self[3], right[3], adder2[2])
        adder4 == full_adder(self[4], right[4], Low)
        adder5 == full_adder(self[5], right[5], adder4[2])
        adder6 == full_adder(self[6], right[6], adder5[2])
        adder7 == full_adder(self[7], right[7], adder6[2])
        sums == <<adder0[1], adder1[1], adder2[1], adder3[1],
                  adder4[1], adder5[1], adder6[1], adder7[1]>>
    IN  <<from_fn([i \in BitIndex |-> sums[i + 1]]), adder7[2]>>

\* array::from_fn calls the closure for i = 0, 1, ..., 7 in this order; adder_i
\* is what full_adder returns in call i, given `carry` as call i - 1 left it
Byte_add_with_carry(self, right, carry) ==
    LET adder0 == full_adder(self[0], right[0], carry)
        adder1 == full_adder(self[1], right[1], adder0[2])
        adder2 == full_adder(self[2], right[2], adder1[2])
        adder3 == full_adder(self[3], right[3], adder2[2])
        adder4 == full_adder(self[4], right[4], adder3[2])
        adder5 == full_adder(self[5], right[5], adder4[2])
        adder6 == full_adder(self[6], right[6], adder5[2])
        adder7 == full_adder(self[7], right[7], adder6[2])
        sums == <<adder0[1], adder1[1], adder2[1], adder3[1],
                  adder4[1], adder5[1], adder6[1], adder7[1]>>
    IN  <<from_fn([i \in BitIndex |-> sums[i + 1]]), adder7[2]>>

\* impl Add for Byte
Byte_add(self, rhs) == Byte_add_with_carry(self, rhs, Low)

\* impl Sub for Byte
Byte_sub(self, rhs) == Byte_add_with_carry(self, Byte_not(rhs), High)

\* sub_with_carry that ignores the carry it is given
Byte_sub_with_carry_ignored(self, right, carry) ==
    LET first == Byte_sub(self, Byte_from(0))
        second == Byte_sub(first[1], right)
        subs == <<first, second>>
    IN  <<subs[2][1], Bit_or(subs[1][2], subs[2][2])>>

\* sub_with_carry returning the carry of its first subtraction alone
Byte_sub_with_carry_first_carry(self, right, carry) ==
    LET carry_byte == from_fn([i \in BitIndex |-> IF i = 0 THEN carry ELSE Low])
        first == Byte_sub(self, carry_byte)
        second == Byte_sub(first[1], right)
        subs == <<first, second>>
    IN  <<subs[2][1], subs[1][2]>>

\* first is (self, carry) = self - carry_byte and second is self - right, computed
\* one after the other
Byte_sub_with_carry(self, right, carry) ==
    LET carry_byte == from_fn([i \in BitIndex |-> IF i = 0 THEN carry ELSE Low])
        first == Byte_sub(self, carry_byte)
        second == Byte_sub(first[1], right)
        subs == <<first, second>>
    IN  <<subs[2][1], Bit_or(subs[1][2], subs[2][2])>>

(***************************************************************************)
(* mux/byte.rs : the selection fabric on bytes, Ram and Registers          *)
(***************************************************************************)
mux(left, right, select) == from_fn([i \in BitIndex |-> bit_mux(left[i], right[i], select)])

mux4(input, select) ==
    CHOOSE output \in
        {mux(left, right, select[1]) :
            left \in {mux(input[0], input[1], select[0])},
            right \in {mux(input[2], input[3], select[0])}} : TRUE

\* the two halves of select taken for each other
mux16_selects_swapped(input, select) ==
    CHOOSE output \in
        {mux4(array, high) :
            array \in {from_fn([i \in 0 .. 3 |->
                          mux4(slice(input, i * 4, 4), slice(select, 2, 2))])},
            high \in {slice(select, 0, 2)}} : TRUE

mux16(input, select) ==
    CHOOSE output \in
        {mux4(array, high) :
            array \in {from_fn([i \in 0 .. 3 |->
                          mux4(slice(input, i * 4, 4), slice(select, 0, 2))])},
            high \in {slice(select, 2, 2)}} : TRUE

mux256(input, select) ==
    CHOOSE output \in
        {mux16(array, high) :
            array \in {from_fn([i \in 0 .. 15 |->
                          mux16(slice(input, i * 16, 16), slice(select, 0, 4))])},
            high \in {slice(select, 4, 4)}} : TRUE

\* the input sent to the left output when select is High
dmux_outputs_swapped(input, select) ==
    <<from_fn([i \in BitIndex |-> Bit_and(input[i], select)]),
      from_fn([i \in BitIndex |-> Bit_and(input[i], Bit_not(select))])>>

dmux(input, select) ==
    <<from_fn([i \in BitIndex |-> Bit_and(input[i], Bit_not(select))]),
      from_fn([i \in BitIndex |-> Bit_and(input[i], select)])>>

dmux4(input, select) ==
    from_fn([i \in 0 .. 3 |->
        from_fn([j \in BitIndex |-> Bit_and(Bit_from(select_matches(i, select, 2)), input[j])])])

dmux16(input, select) ==
    from_fn([i \in 0 .. 15 |->
        from_fn([j \in BitIndex |-> Bit_and(Bit_from(select_matches(i, select, 4)), input[j])])])

dmux256(input, select) ==
    from_fn([i \in 0 .. 255 |->
        from_fn([j \in BitIndex |-> Bit_and(Bit_from(select_matches(i, select, 8)), input[j])])])

\* Ram::new : data: [Byte::from(0); 256]
Ram_new == from_fn([i \in 0 .. 255 |-> Byte_from(0)])

\* Ram::load
Ram_load(data, address) == mux256(data, address)

\* the cell selected keeps the bits it had (or instead of mux)
Ram_store_keeps_set_bits(data, address, value) ==
    CHOOSE cells \in
        {from_fn([i \in 0 .. 255 |-> Byte_or(data[i], new_value[i])]) :
            new_value \in {dmux256(value, address)}} : TRUE

\* Ram::store : the new contents of data
Ram_store(data, address, value) ==
    CHOOSE cells \in
        {from_fn([i \in 0 .. 255 |-> mux(data[i], new_value[i], select[i])]) :
            new_value \in {dmux256(value, address)},
            select \in {bit_dmux256(High, address)}} : TRUE

\* Registers::new : data: [Byte::from(0); 4]
Registers_new == from_fn([i \in 0 .. 3 |-> Byte_from(0)])

\* Registers::load
Registers_load(data, select) == mux4(data, select)

\* a store with every enable bit High
Registers_store_all_enabled(data, select, value) ==
    CHOOSE output \in
        {from_fn([i \in 0 .. 3 |-> mux(data[i], new_value[i], High)]) :
            new_value \in {dmux4(value, select)}} : TRUE

\* Registers::store : the new contents of data
Registers_store(data, select, value) ==
    CHOOSE cells \in
        {from_fn([i \in 0 .. 3 |-> mux(data[i], new_value[i], enable[i])]) :
            new_value \in {dmux4(value, select)},
            enable \in {bit_dmux4(High, select)}} : TRUE


(***************************************************************************)
(* lib.rs : the state of one run of `alu(iter, out)`                       *)
(*                                                                         *)
(*   program, pc   the items of `iter` and how many of them were consumed  *)
(*   registers     Registers.data                                          *)
(*   memory        Ram.data                                                *)
(*   overflow      the overflow Bit                                        *)
(*   out           the characters the sink `out` accepted, as code points  *)
(*   status        "running", "returned" (the loop ended) or "panicked"    *)
(*   panic         the panic message, <<>> while there is none             *)
(*                                                                         *)
(* call, args, ret hold a direct call of one of the library's functions    *)
(* (its name, its arguments, its result) in the specifications that        *)
(* exercise the library below the interpreter.                             *)
(***************************************************************************)
VARIABLES program, pc, registers, memory, overflow, out, status, panic,
          call, args, ret

machine == <<program, pc, registers, memory, overflow, out, status, panic>>

library == <<call, args, ret>>

vars == <<program, pc, registers, memory, overflow, out, status, panic,
          call, args, ret>>

\* let reg_low = array::from_fn(|i| Bit::from((byte >> i) & 1 == 1));
reg_low(byte) == from_fn([i \in 0 .. 1 |-> Bit_from(u8_shr(byte, i) % 2 = 1)])

\* reg_high without the shift by 2
reg_high_unshifted(byte) == from_fn([i \in 0 .. 1 |-> Bit_from(u8_shr(byte, i) % 2 = 1)])

\* let reg_high = array::from_fn(|i| Bit::from((byte >> (i + 2)) & 1 == 1));
reg_high(byte) == from_fn([i \in 0 .. 1 |-> Bit_from(u8_shr(byte, i + 2) % 2 = 1)])

\* `while let Some(byte) = iter.next()` : an item is left to read
has_next == pc < Len(program)

\* the item iter.next() yields when n - 1 items were taken since the loop head
item(n) == program[pc + n]

\* the opcode byte of the iteration that starts in the current state
opcode == item(1)

\* iter.next() of an operand yields Some
has_operand == pc + 1 < Len(program)

fetched == status = "running" /\ has_next

\* the arms that store into registers, with the flag cleared as well
set_register_clears_overflow(select, value, consumed) ==
    /\ \E register \in {select}, stored \in {value} :
           registers' = Registers_store(registers, register, stored)
    /\ pc' = pc + consumed
    /\ overflow' = Low
    /\ UNCHANGED <<program, memory, out, status, panic, library>>

\* the match arms that store into registers and touch nothing else
set_register(select, value, consumed) ==
    /\ \E register \in {select}, stored \in {value} :
           registers' = Registers_store(registers, register, stored)
    /\ pc' = pc + consumed
    /\ UNCHANGED <<program, memory, overflow, out, status, panic, library>>

\* the arithmetic arms: store the result, then overflow = carry
set_register_and_overflow(select, result) ==
    /\ \E register \in {select}, sum \in {result} :
           /\ registers' = Registers_store(registers, register, sum[1])
           /\ overflow' = sum[2]
    /\ pc' = pc + 1
    /\ UNCHANGED <<program, memory, out, status, panic, library>>

\* panic!(..) and expect(..) : the run ends with the message
panics(message, consumed) ==
    /\ status' = "panicked"
    /\ panic' = message
    /\ pc' = pc + consumed

\* 0..4 with the operand left in the stream, to be read as the next opcode
LoadConstant_leaves_operand ==
    /\ fetched
    /\ opcode \in 0 .. 3
    /\ has_operand
    /\ set_register(reg_low(opcode), Byte_from(item(2)), 1)

\* 0..4
LoadConstant ==
    /\ fetched
    /\ opcode \in 0 .. 3
    /\ has_operand
    /\ set_register(reg_low(opcode), Byte_from(item(2)), 2)

\* 4..8
LoadMemory ==
    /\ fetched
    /\ opcode \in 4 .. 7
    /\ has_operand
    /\ \E address \in {Byte_from(item(2))} :
           set_register(reg_low(opcode), Ram_load(memory, address), 2)

\* StoreMemory printing the address operand instead of the register
StoreMemory_emits_address ==
    /\ fetched
    /\ opcode \in 8 .. 11
    /\ has_operand
    /\ \E address \in {item(2)}, value \in {Registers_load(registers, reg_low(opcode))} :
           /\ \E into \in {Byte_from(address)} : memory' = Ram_store(memory, into, value)
           /\ out' = IF address = 255 THEN Append(out, address) ELSE out
    /\ pc' = pc + 2
    /\ UNCHANGED <<program, registers, overflow, status, panic, library>>

\* StoreMemory printing on a store to any address
StoreMemory_any_address ==
    /\ fetched
    /\ opcode \in 8 .. 11
    /\ has_operand
    /\ \E address \in {item(2)}, value \in {Registers_load(registers, reg_low(opcode))} :
           /\ \E into \in {Byte_from(address)} : memory' = Ram_store(memory, into, value)
           /\ out' = Append(out, u8_from(value))
    /\ pc' = pc + 2
    /\ UNCHANGED <<program, registers, overflow, status, panic, library>>

\* 8..12, with out.write_char returning Ok when address == 255
StoreMemory ==
    /\ fetched
    /\ opcode \in 8 .. 11
    /\ has_operand
    /\ \E address \in {item(2)}, value \in {Registers_load(registers, reg_low(opcode))} :
           /\ \E into \in {Byte_from(address)} : memory' = Ram_store(memory, into, value)
           /\ out' = IF address = 255 THEN Append(out, u8_from(value)) ELSE out
    /\ pc' = pc + 2
    /\ UNCHANGED <<program, registers, overflow, status, panic, library>>

\* 8..12, with out.write_char returning Err : expect panics after memory.store
WriteFailed ==
    /\ fetched
    /\ opcode \in 8 .. 11
    /\ has_operand
    /\ item(2) = 255
    /\ \E into \in {Byte_from(item(2))}, value \in {Registers_load(registers, reg_low(opcode))} :
           memory' = Ram_store(memory, into, value)
    /\ panics(<<"Failed to write byte to output">>, 2)
    /\ UNCHANGED <<program, registers, overflow, out, library>>

\* a missing operand read as 0 (unwrap_or_default) instead of a panic
UnexpectedEnd_default ==
    /\ fetched
    /\ opcode \in 0 .. 11
    /\ ~has_operand
    /\ registers' = IF opcode \in 0 .. 7
                    THEN Registers_store(registers, reg_low(opcode), Byte_from(0))
                    ELSE registers
    /\ pc' = pc + 1
    /\ UNCHANGED <<program, memory, overflow, out, status, panic, library>>

\* 0..12 with iter.next() of the operand yielding None : expect panics
UnexpectedEnd ==
    /\ fetched
    /\ opcode \in 0 .. 11
    /\ ~has_operand
    /\ panics(<<"Unexpected end of program">>, 1)
    /\ UNCHANGED <<program, registers, memory, overflow, out, library>>

\* 12..16
Not ==
    /\ fetched
    /\ opcode \in 12 .. 15
    /\ \E low \in {Registers_load(registers, reg_low(opcode))} :
           set_register(reg_low(opcode), Byte_not(low), 1)

\* 16..32
Move ==
    /\ fetched
    /\ opcode \in 16 .. 31
    /\ set_register(reg_high(opcode), Registers_load(registers, reg_low(opcode)), 1)

\* 32..48
Nand ==
    /\ fetched
    /\ opcode \in 32 .. 47
    /\ \E high \in {Registers_load(registers, reg_high(opcode))},
          low \in {Registers_load(registers, reg_low(opcode))} :
           set_register(reg_high(opcode), Byte_nand(high, low), 1)

\* 48..64
And ==
    /\ fetched
    /\ opcode \in 48 .. 63
    /\ \E high \in {Registers_load(registers, reg_high(opcode))},
          low \in {Registers_load(registers, reg_low(opcode))} :
           set_register(reg_high(opcode), Byte_and(high, low), 1)

\* 64..80
Nor ==
    /\ fetched
    /\ opcode \in 64 .. 79
    /\ \E high \in {Registers_load(registers, reg_high(opcode))},
          low \in {Registers_load(registers, reg_low(opcode))} :
           set_register(reg_high(opcode), Byte_nor(high, low), 1)

\* 80..96
Or ==
    /\ fetched
    /\ opcode \in 80 .. 95
    /\ \E high \in {Registers_load(registers, reg_high(opcode))},
          low \in {Registers_load(registers, reg_low(opcode))} :
           set_register(reg_high(opcode), Byte_or(high, low), 1)

\* 96..112
Xnor ==
    /\ fetched
    /\ opcode \in 96 .. 111
    /\ \E high \in {Registers_load(registers, reg_high(opcode))},
          low \in {Registers_load(registers, reg_low(opcode))} :
           set_register(reg_high(opcode), Byte_xnor(high, low), 1)

\* 112..128
Xor ==
    /\ fetched
    /\ opcode \in 112 .. 127
    /\ \E high \in {Registers_load(registers, reg_high(opcode))},
          low \in {Registers_load(registers, reg_low(opcode))} :
           set_register(reg_high(opcode), Byte_xor(high, low), 1)

\* 128..144
Add ==
    /\ fetched
    /\ opcode \in 128 .. 143
    /\ \E high \in {Registers_load(registers, reg_high(opcode))},
          low \in {Registers_load(registers, reg_low(opcode))} :
           set_register_and_overflow(reg_high(opcode), Byte_add(high, low))

\* the old flag left out of the sum (add instead of add_with_carry)
AddOverflow_without_carry ==
    /\ fetched
    /\ opcode \in 144 .. 159
    /\ \E high \in {Registers_load(registers, reg_high(opcode))},
          low \in {Registers_load(registers, reg_low(opcode))} :
           set_register_and_overflow(reg_high(opcode), Byte_add(high, low))

\* 144..160
AddOverflow ==
    /\ fetched
    /\ opcode \in 144 .. 159
    /\ \E high \in {Registers_load(registers, reg_high(opcode))},
          low \in {Registers_load(registers, reg_low(opcode))} :
           set_register_and_overflow(reg_high(opcode), Byte_add_with_carry(high, low, overflow))

\* 160..176
Sub ==
    /\ fetched
    /\ opcode \in 160 .. 175
    /\ \E high \in {Registers_load(registers, reg_high(opcode))},
          low \in {Registers_load(registers, reg_low(opcode))} :
           set_register_and_overflow(reg_high(opcode), Byte_sub(high, low))

\* 176..192
SubOverflow ==
    /\ fetched
    /\ opcode \in 176 .. 191
    /\ \E high \in {Registers_load(registers, reg_high(opcode))},
          low \in {Registers_load(registers, reg_low(opcode))} :
           set_register_and_overflow(reg_high(opcode), Byte_sub_with_carry(high, low, overflow))

\* an unknown opcode skipped instead of a panic
InvalidInstruction_skips ==
    /\ fetched
    /\ opcode >= 192
    /\ pc' = pc + 1
    /\ UNCHANGED <<program, registers, memory, overflow, out, status, panic, library>>

\* 192.. => panic!("Invalid instruction: {byte}")
InvalidInstruction ==
    /\ fetched
    /\ opcode >= 192
    /\ panics(<<"Invalid instruction", opcode>>, 1)
    /\ UNCHANGED <<program, registers, memory, overflow, out, library>>

\* iter.next() yields None at the loop head : alu returns
Return ==
    /\ status = "running"
    /\ ~has_next
    /\ status' = "returned"
    /\ UNCHANGED <<program, pc, registers, memory, overflow, out, panic, library>>

(***************************************************************************)
(* The programs the interpreter is run on                                  *)
(***************************************************************************)
\* bound: the longest program of ShortPrograms, in bytes
MaxProgLen == 3

\* bound: the most characters a program of HelloPrograms prints
MaxHello == 2

\* the bytes of ShortPrograms: each is an opcode, a value and an address
\*   1 LoadConstant r1   5 LoadMemory r1   9 StoreMemory r1   13 Not r1
\*   29 Move r3 <- r1    148 AddOverflow r1 += r0             165 Sub r1 -= r1
\*   255 no instruction, and the address of the output port
ProgBytes == {1, 5, 9, 13, 29, 148, 165, 255}

\* every byte string over ProgBytes of at most MaxProgLen bytes
ShortPrograms == UNION {[1 .. n -> ProgBytes] : n \in 0 .. MaxProgLen}

\* LoadConstant r0..r3 with the four values of v
LoadAll(v) == <<0, v[1], 1, v[2], 2, v[3], 3, v[4]>>

Preambles == {LoadAll(<<53, 202, 15, 255>>), LoadAll(<<128, 1, 127, 254>>)}

\* operand bytes of the instruction that follows a preamble
Operands == {0, 29, 255}

\* one instruction of any opcode; for opcodes 0..11 with and without operand
OneInstruction == {<<b>> : b \in U8} \cup {<<b, x>> : b \in 0 .. 11, x \in Operands}

PreambledPrograms == {p \o i : p \in Preambles, i \in OneInstruction}

\* the characters hello programs print
HelloChars == {0, 72, 105, 255}

\* [0, b1, 8, 255, 0, b2, 8, 255, ...] as in tests::hello_world
RECURSIVE HelloProgram(_)
HelloProgram(bs) ==
    IF bs = <<>>
    THEN <<>>
    ELSE <<0, Head(bs), 8, 255>> \o HelloProgram(Tail(bs))

HelloInputs == UNION {[1 .. n -> HelloChars] : n \in 0 .. MaxHello}

HelloPrograms == {HelloProgram(bs) : bs \in HelloInputs}

\* the bytes of the two 16-bit numbers of a wide addition
WideBytes == {0, 1, 255}

\* the registers <<low of X, high of X, low of Y, high of Y>> of a wide addition
WideLayouts == {<<0, 1, 2, 3>>, <<3, 2, 1, 0>>}

\* LoadConstant r0..r3 with v, then Add on the low bytes of X and Y and
\* AddOverflow on their high bytes, the registers being those of layout w
WideAdd(v, w) == LoadAll(v) \o <<128 + 4 * w[1] + w[3], 144 + 4 * w[2] + w[4]>>

\* the same with Sub on the low bytes and SubOverflow on the high bytes
WideSub(v, w) == LoadAll(v) \o <<160 + 4 * w[1] + w[3], 176 + 4 * w[2] + w[4]>>

WidePrograms ==
    {WideAdd(v, w) : v \in [1 .. 4 -> WideBytes], w \in WideLayouts}
        \cup {WideSub(v, w) : v \in [1 .. 4 -> WideBytes], w \in WideLayouts}

\* an arithmetic instruction on r1 and r0, and the flag it leaves when
\* r0 = 255 and r1 = 1:
\*   132 Add r1 += r0 (High)     133 Add r1 += r1 (Low)
\*   164 Sub r1 -= r0 (Low)      165 Sub r1 -= r1 (High)
CarrySetters == {132, 133, 164, 165}

\* instructions with opcodes in 0..127, on r0, r1 and memory only
\*   Not r1; Nand, And, Nor, Or, Xnor, Xor r0 with r1
\*   LoadConstant r0 7; StoreMemory r0 -> 9; LoadMemory r1 <- 9; Move r0 <- r1
\*   StoreMemory r0 -> 255, the output port
\*   StoreMemory r0 -> 9; StoreMemory r1 -> 10; StoreMemory r2 -> 9
CarryKeepers ==
    {<<>>, <<13, 33, 49, 65, 81, 97, 113>>, <<0, 7, 8, 9, 5, 9, 17>>, <<8, 255>>,
     <<8, 9, 9, 10, 10, 9>>}

\* 158 AddOverflow r3 += r2     190 SubOverflow r3 -= r2
CarryUsers == {158, 190}

\* r0 = 255, r1 = 1, r2 = 1, r3 = 0, then a setter, keepers and a user
CarryProgram(a, m, c) == LoadAll(<<255, 1, 1, 0>>) \o <<a>> \o m \o <<c>>

CarryPrograms ==
    {CarryProgram(a, m, c) : a \in CarrySetters, m \in CarryKeepers, c \in CarryUsers}

Programs ==
    ShortPrograms \cup PreambledPrograms \cup HelloPrograms \cup WidePrograms
        \cup CarryPrograms

\* no library call is made in a run of the interpreter
NoCall == call = "none" /\ args = <<>> /\ ret = <<>>

\* alu : Registers::new(), Ram::new(), overflow = Bit::Low
Init ==
    /\ program \in Programs
    /\ pc = 0
    /\ registers = Registers_new
    /\ memory = Ram_new
    /\ overflow = Low
    /\ out = <<>>
    /\ status = "running"
    /\ panic = <<>>
    /\ NoCall

Next ==
    \/ LoadConstant
    \/ LoadMemory
    \/ StoreMemory
    \/ WriteFailed
    \/ UnexpectedEnd
    \/ Not
    \/ Move
    \/ Nand
    \/ And
    \/ Nor
    \/ Or
    \/ Xnor
    \/ Xor
    \/ Add
    \/ AddOverflow
    \/ Sub
    \/ SubOverflow
    \/ InvalidInstruction
    \/ Return

Spec == Init /\ [][Next]_vars

\* one iteration of the loop, or its end, seen on the stream alone: one or
\* two items are taken, or none is left and alu returns
Advance ==
    /\ status = "running"
    /\ \/ pc' \in {pc + 1, pc + 2} /\ status' \in {"running", "panicked"}
       \/ pc' = pc /\ status' = "returned"

\* alu runs on the caller's thread without suspension points: while it is
\* running, it takes its next step
SpecFair == Init /\ [][Next]_vars /\ WF_<<pc, status>>(Advance)

(***************************************************************************)
(* SpecRuns: alu called again after a run has ended.  Every call builds    *)
(* its own registers, memory and overflow; the caller passes a new sink.   *)
(*   call = "alu" once a run has ended, and ret = what that run left:      *)
(*   <<overflow, registers are not all zero, memory is not all zero>>      *)
(***************************************************************************)
\* the programs of the later runs, each one of Programs
RerunPrograms ==
    {<<5, 9>>, <<5, 255>>, <<148>>, <<1, 9, 148>>}
        \cup {p \o <<b>> : p \in Preambles, b \in {5, 151, 183}}

\* registers, memory and overflow as statics that outlive the call
Restart_keeps_state ==
    /\ status \in {"returned", "panicked"}
    /\ program' \in RerunPrograms
    /\ pc' = 0
    /\ out' = <<>>
    /\ status' = "running"
    /\ panic' = <<>>
    /\ call' = "alu"
    /\ ret' = <<overflow, registers # Registers_new, memory # Ram_new>>
    /\ UNCHANGED <<registers, memory, overflow, args>>

\* alu returned or panicked, and alu is called on another program
Restart ==
    /\ status \in {"returned", "panicked"}
    /\ program' \in RerunPrograms
    /\ pc' = 0
    /\ registers' = Registers_new
    /\ memory' = Ram_new
    /\ overflow' = Low
    /\ out' = <<>>
    /\ status' = "running"
    /\ panic' = <<>>
    /\ call' = "alu"
    /\ ret' = <<overflow, registers # Registers_new, memory # Ram_new>>
    /\ UNCHANGED args

NextRuns ==
    \/ Next
    \/ Restart

SpecRuns == Init /\ [][NextRuns]_vars

(***************************************************************************)
(* SpecPrefix: after a run that panicked, alu called on the bytes that     *)
(* precede the instruction the panic occurred in.                          *)
(*   call = "alu" in that second run, args = <<registers, memory,          *)
(*   overflow, out>> as the panicked run left them, ret = its panic        *)
(***************************************************************************)
\* the position at which the instruction starts whose arm panicked: the arm
\* 8..12 has read its operand when write_char fails, the other panics
\* follow the last byte read
failed_at ==
    IF panic = <<"Failed to write byte to output">> THEN pc - 2 ELSE pc - 1

\* alu panicked, and alu is called on program[0..failed_at) with a new sink
RunPrefix ==
    /\ status = "panicked"
    /\ call = "none"
    /\ program' = SubSeq(program, 1, failed_at)
    /\ pc' = 0
    /\ registers' = Registers_new
    /\ memory' = Ram_new
    /\ overflow' = Low
    /\ out' = <<>>
    /\ status' = "running"
    /\ panic' = <<>>
    /\ call' = "alu"
    /\ args' = <<registers, memory, overflow, out>>
    /\ ret' = panic

NextPrefix ==
    \/ Next
    \/ RunPrefix

SpecPrefix == Init /\ [][NextPrefix]_vars

(***************************************************************************)
(* src/src/lib.rs : the alu whose memory is the array [Byte::from(0); 256] *)
(* indexed with usize::from(byte), and which has no output.                *)
(* SpecVariants runs it on the program of the alu above, one instruction   *)
(* ahead of it.                                                            *)
(*   call = "src::alu", ret = its registers, memory, overflow, how many    *)
(*   bytes it has read (pc), and how it ended (status, panic)              *)
(***************************************************************************)
\* let mut registers = Registers::new(); let mut memory = [Byte::from(0); 256];
\* let mut overflow = Bit::Low;
native_new ==
    [pc |-> 0,
     registers |-> Registers_new,
     memory |-> [a \in 0 .. 255 |-> Byte_from(0)],
     overflow |-> Low,
     status |-> "running",
     panic |-> <<>>]

\* this alu takes a step when the other has caught up with it, or has ended
native_turn == ret.status = "running" /\ (ret.pc = pc \/ status # "running")

\* the value of the arms that only store into registers
native_value(byte, operand, high, low) ==
    CASE byte \in 0 .. 3 -> Byte_from(operand)
      [] byte \in 4 .. 7 -> ret.memory[operand]
      [] byte \in 12 .. 15 -> Byte_not(low)
      [] byte \in 16 .. 31 -> low
      [] byte \in 32 .. 47 -> Byte_nand(high, low)
      [] byte \in 48 .. 63 -> Byte_and(high, low)
      [] byte \in 64 .. 79 -> Byte_nor(high, low)
      [] byte \in 80 .. 95 -> Byte_or(high, low)
      [] byte \in 96 .. 111 -> Byte_xnor(high, low)
      [] byte \in 112 .. 127 -> Byte_xor(high, low)
      [] OTHER -> low

\* (result, carry) of the arithmetic arms
native_sum(byte, high, low) ==
    CASE byte \in 128 .. 143 -> Byte_add(high, low)
      [] byte \in 144 .. 159 -> Byte_add_with_carry(high, low, ret.overflow)
      [] byte \in 160 .. 175 -> Byte_sub(high, low)
      [] byte \in 176 .. 191 -> Byte_sub_with_carry(high, low, ret.overflow)
      [] OTHER -> <<low, ret.overflow>>

\* 8..12 : memory[usize::from(address)] = registers.load(reg_low)
Native_alu_store(byte, operand, low) ==
    ret' = [ret EXCEPT !.memory[operand] = low, !.pc = @ + 2]

\* one pass of the while loop through an arm that does not panic
Native_alu ==
    /\ native_turn
    /\ ret.pc < Len(program)
    /\ \E byte \in {program[ret.pc + 1]} :
           /\ byte < 192
           /\ byte < 12 => ret.pc + 1 < Len(program)
           /\ \E operand \in {IF byte < 12 THEN program[ret.pc + 2] ELSE 0},
                 high \in {Registers_load(ret.registers, reg_high(byte))},
                 low \in {Registers_load(ret.registers, reg_low(byte))} :
                  \E value \in {native_value(byte, operand, high, low)},
                     sum \in {native_sum(byte, high, low)} :
                      CASE byte \in 8 .. 11 -> Native_alu_store(byte, operand, low)
                        [] byte \in 0 .. 7 \cup 12 .. 15 ->
                             \E stored \in {Registers_store(ret.registers, reg_low(byte), value)} :
                                 ret' = [ret EXCEPT !.registers = stored,
                                                    !.pc = @ + (IF byte < 12 THEN 2 ELSE 1)]
                        [] byte \in 16 .. 127 ->
                             \E stored \in {Registers_store(ret.registers, reg_high(byte), value)} :
                                 ret' = [ret EXCEPT !.registers = stored, !.pc = @ + 1]
                        [] byte \in 128 .. 191 ->
                             \E stored \in {Registers_store(ret.registers, reg_high(byte), sum[1])} :
                                 ret' = [ret EXCEPT !.registers = stored,
                                                    !.overflow = sum[2],
                                                    !.pc = @ + 1]
    /\ UNCHANGED <<machine, call, args>>

\* iter.next().expect("Unexpected end of program") of the arms 0..12
Native_UnexpectedEnd ==
    /\ native_turn
    /\ ret.pc + 1 = Len(program)
    /\ program[ret.pc + 1] < 12
    /\ ret' = [ret EXCEPT !.status = "panicked",
                          !.panic = <<"Unexpected end of program">>,
                          !.pc = @ + 1]
    /\ UNCHANGED <<machine, call, args>>

\* 192.. => panic!("Invalid instruction: {byte}")
Native_InvalidInstruction ==
    /\ native_turn
    /\ ret.pc < Len(program)
    /\ program[ret.pc + 1] >= 192
    /\ ret' = [ret EXCEPT !.status = "panicked",
                          !.panic = <<"Invalid instruction", program[ret.pc + 1]>>,
                          !.pc = @ + 1]
    /\ UNCHANGED <<machine, call, args>>

\* iter.next() yields None at the loop head
Native_Return ==
    /\ native_turn
    /\ ret.pc >= Len(program)
    /\ ret' = [ret EXCEPT !.status = "returned"]
    /\ UNCHANGED <<machine, call, args>>

\* the alu of computer/src/lib.rs follows, instruction by instruction
Follows ==
    /\ ret.status # "running" \/ ret.pc > pc
    /\ Next

InitVariants ==
    /\ program \in Programs
    /\ pc = 0
    /\ registers = Registers_new
    /\ memory = Ram_new
    /\ overflow = Low
    /\ out = <<>>
    /\ status = "running"
    /\ panic = <<>>
    /\ call = "src::alu"
    /\ args = <<>>
    /\ ret = native_new

NextVariants ==
    \/ Native_alu
    \/ Native_UnexpectedEnd
    \/ Native_InvalidInstruction
    \/ Native_Return
    \/ Follows

SpecVariants == InitVariants /\ [][NextVariants]_vars

(***************************************************************************)
(* assembler/src/lib.rs : Register, Instruction and Instruction::to_bytes  *)
(*   an instruction is the tuple of its variant's name and its fields      *)
(***************************************************************************)
Register == {"R0", "R1", "R2", "R3"}

\* impl From<Register> for u8
u8_from_Register(value) ==
    CASE value = "R0" -> 0
      [] value = "R1" -> 1
      [] value = "R2" -> 2
      [] value = "R3" -> 3

\* the variants with one register and the variants with two
SingleRegisterNames == {"LoadConstant", "LoadMemory", "StoreMemory", "Not"}

TwoRegisterNames ==
    {"Move", "Nand", "And", "Nor", "Or", "Xnor", "Xor", "Add", "AddOverflow", "Sub",
     "SubOverflow"}

\* LoadMemory and StoreMemory with each other's opcode base
to_bytes_match_bases_swapped(instruction) ==
    LET name == instruction[1]
        register == u8_from_Register(instruction[2])
    IN  CASE name = "LoadConstant" -> <<register, instruction[3]>>
          [] name = "LoadMemory" -> <<u8_bitor(8, register), instruction[3]>>
          [] name = "StoreMemory" -> <<u8_bitor(4, register), instruction[3]>>
          [] name = "Not" -> <<u8_bitor(12, register)>>
          [] OTHER -> <<>>

\* the match of to_bytes : the bytes result.extend_from_slice appends
to_bytes_match(instruction) ==
    LET name == instruction[1]
        register == u8_from_Register(instruction[2])
        two(base) == <<u8_bitor(base, u8_shl(register, 2)), u8_from_Register(instruction[3])>>
    IN  CASE name = "LoadConstant" -> <<register, instruction[3]>>
          [] name = "LoadMemory" -> <<u8_bitor(4, register), instruction[3]>>
          [] name = "StoreMemory" -> <<u8_bitor(8, register), instruction[3]>>
          [] name = "Not" -> <<u8_bitor(12, register)>>
          [] name = "Move" -> two(16)
          [] name = "Nand" -> two(32)
          [] name = "And" -> two(48)
          [] name = "Nor" -> two(64)
          [] name = "Or" -> two(80)
          [] name = "Xnor" -> two(96)
          [] name = "Xor" -> two(112)
          [] name = "Add" -> two(128)
          [] name = "AddOverflow" -> two(144)
          [] name = "Sub" -> two(160)
          [] name = "SubOverflow" -> two(172)

\* instructions.into_iter().fold(Vec::new(), ..)
RECURSIVE to_bytes(_)
to_bytes(instructions) ==
    IF instructions = <<>>
    THEN <<>>
    ELSE to_bytes_match(Head(instructions)) \o to_bytes(Tail(instructions))

(***************************************************************************)
(* SpecAssembled: the interpreter run on what to_bytes emits               *)
(*   args = <<instructions>>, ret = to_bytes(instructions) = program       *)
(***************************************************************************)
\* bound: the most instructions of a sequence of SingleSequences
MaxAsmLen == 2

\* one-register instructions on each register; 9 and 12 are also opcodes,
\* 255 is the output port
SingleInstructions ==
    {<<"LoadConstant", "R0", 200>>, <<"LoadConstant", "R1", 9>>,
     <<"LoadConstant", "R2", 12>>, <<"LoadConstant", "R3", 255>>,
     <<"LoadMemory", "R0", 255>>, <<"LoadMemory", "R1", 7>>,
     <<"LoadMemory", "R2", 7>>, <<"LoadMemory", "R3", 4>>,
     <<"StoreMemory", "R0", 7>>, <<"StoreMemory", "R1", 255>>,
     <<"StoreMemory", "R2", 255>>, <<"StoreMemory", "R3", 8>>,
     <<"Not", "R0">>, <<"Not", "R1">>, <<"Not", "R2">>, <<"Not", "R3">>}

SingleSequences == UNION {[1 .. n -> SingleInstructions] : n \in 0 .. MaxAsmLen}

\* LoadConstant of 53, 202, 15, 255 into R0..R3
AsmPreamble ==
    <<<<"LoadConstant", "R0", 53>>, <<"LoadConstant", "R1", 202>>,
      <<"LoadConstant", "R2", 15>>, <<"LoadConstant", "R3", 255>>>>

AsmPreambleValues == <<53, 202, 15, 255>>

TwoRegisterInstructions ==
    {<<name, left, right>> : name \in TwoRegisterNames, left \in Register, right \in Register}

\* the registers loaded, then one two-register instruction
TwoRegisterSequences == {AsmPreamble \o <<i>> : i \in TwoRegisterInstructions}

\* a two-register instruction with an instruction after it
FollowedSequences ==
    {<<<<"Move", "R1", "R2">>, j>> :
        j \in SingleInstructions
                \cup {<<"LoadConstant", "R3", 187>>, <<"LoadConstant", "R3", 200>>}}

AsmInputs == SingleSequences \cup TwoRegisterSequences \cup FollowedSequences

InitAssembled ==
    /\ args \in {<<instructions>> : instructions \in AsmInputs}
    /\ call = "Instruction::to_bytes"
    /\ ret = to_bytes(args[1])
    /\ program = ret
    /\ pc = 0
    /\ registers = Registers_new
    /\ memory = Ram_new
    /\ overflow = Low
    /\ out = <<>>
    /\ status = "running"
    /\ panic = <<>>

SpecAssembled == InitAssembled /\ [][Next]_vars

(***************************************************************************)
(* The library below the interpreter, called directly.  In these           *)
(* specifications no program runs: the machine variables keep the values   *)
(* of Idle, and `registers` and `memory` are empty except in SpecStorage,  *)
(* where one of them is the Registers or the Ram under test.               *)
(***************************************************************************)
Idle ==
    /\ program = <<>>
    /\ pc = 0
    /\ overflow = Low
    /\ out = <<>>
    /\ status = "idle"
    /\ panic = <<>>

\* no Registers and no Ram exist
NoStorage == registers = <<>> /\ memory = <<>>

\* one call on the arguments drawn by Init: its name and what it returns
Calls(name, result) ==
    /\ call = "none"
    /\ call' = name
    /\ ret' = result
    /\ UNCHANGED <<machine, args>>

(***************************************************************************)
(* SpecGates: the gates and circuits on bits, for every input              *)
(*   args = <<input, select>>, input: [Bit; 4], select: [Bit; 2];          *)
(*   the gates are applied to input[0], input[1] and select[0]             *)
(***************************************************************************)
InitGates ==
    /\ Idle
    /\ NoStorage
    /\ call = "none"
    /\ args \in [0 .. 3 -> Bit] \X [0 .. 1 -> Bit]
    /\ ret = <<>>

Call_nand == Calls("nand", Bit_nand(args[1][0], args[1][1]))

Call_not == Calls("not", Bit_not(args[1][0]))

Call_and == Calls("and", Bit_and(args[1][0], args[1][1]))

Call_or == Calls("or", Bit_or(args[1][0], args[1][1]))

Call_nor == Calls("nor", Bit_nor(args[1][0], args[1][1]))

Call_xnor == Calls("xnor", Bit_xnor(args[1][0], args[1][1]))

Call_xor == Calls("xor", Bit_xor(args[1][0], args[1][1]))

Call_half_adder == Calls("half_adder", half_adder(args[1][0], args[1][1]))

Call_full_adder == Calls("full_adder", full_adder(args[1][0], args[1][1], args[2][0]))

Call_mux == Calls("mux", bit_mux(args[1][0], args[1][1], args[2][0]))

Call_mux4 == Calls("mux4", bit_mux4(args[1], args[2]))

Call_dmux == Calls("dmux", bit_dmux(args[1][0], args[2][0]))

Call_dmux4 == Calls("dmux4", bit_dmux4(args[1][0], args[2]))

NextGates ==
    \/ Call_nand
    \/ Call_not
    \/ Call_and
    \/ Call_or
    \/ Call_nor
    \/ Call_xnor
    \/ Call_xor
    \/ Call_half_adder
    \/ Call_full_adder
    \/ Call_mux
    \/ Call_mux4
    \/ Call_dmux
    \/ Call_dmux4

SpecGates == InitGates /\ [][NextGates]_vars

(***************************************************************************)
(* SpecBytes: the arithmetic of byte.rs on Byte::from(left) and            *)
(* Byte::from(right), for every left and right, as its tests call it       *)
(*   args = <<left, right>>; ret = <<result byte, carry, carry given>>     *)
(***************************************************************************)
InitBytes ==
    /\ Idle
    /\ NoStorage
    /\ call = "none"
    /\ args \in U8 \X U8
    /\ ret = <<>>

Call_add ==
    \E left \in {Byte_from(args[1])}, right \in {Byte_from(args[2])} :
        Calls("add", Byte_add(left, right) \o <<Low>>)

Call_add_with_carry ==
    \E carry \in Bit, left \in {Byte_from(args[1])}, right \in {Byte_from(args[2])} :
        Calls("add_with_carry", Byte_add_with_carry(left, right, carry) \o <<carry>>)

Call_sub ==
    \E left \in {Byte_from(args[1])}, right \in {Byte_from(args[2])} :
        Calls("sub", Byte_sub(left, right) \o <<Low>>)

Call_sub_with_carry ==
    \E carry \in Bit, left \in {Byte_from(args[1])}, right \in {Byte_from(args[2])} :
        Calls("sub_with_carry", Byte_sub_with_carry(left, right, carry) \o <<carry>>)

NextBytes ==
    \/ Call_add
    \/ Call_add_with_carry
    \/ Call_sub
    \/ Call_sub_with_carry

SpecBytes == InitBytes /\ [][NextBytes]_vars

(***************************************************************************)
(* SpecBitwise: the boolean operations of byte.rs on Byte::from(left) and  *)
(* Byte::from(right), for every left and right; not is applied to left     *)
(*   args = <<left, right>>; ret = the Byte returned                       *)
(***************************************************************************)
Call_Byte_nand ==
    /\ call = "none"
    /\ \E self \in {Byte_from(args[1])}, other \in {Byte_from(args[2])} :
           Calls("Byte::nand", Byte_nand(self, other))

Call_Byte_and ==
    /\ call = "none"
    /\ \E self \in {Byte_from(args[1])}, other \in {Byte_from(args[2])} :
           Calls("Byte::and", Byte_and(self, other))

Call_Byte_or ==
    /\ call = "none"
    /\ \E self \in {Byte_from(args[1])}, other \in {Byte_from(args[2])} :
           Calls("Byte::or", Byte_or(self, other))

Call_Byte_nor ==
    /\ call = "none"
    /\ \E self \in {Byte_from(args[1])}, other \in {Byte_from(args[2])} :
           Calls("Byte::nor", Byte_nor(self, other))

Call_Byte_xnor ==
    /\ call = "none"
    /\ \E self \in {Byte_from(args[1])}, other \in {Byte_from(args[2])} :
           Calls("Byte::xnor", Byte_xnor(self, other))

Call_Byte_xor ==
    /\ call = "none"
    /\ \E self \in {Byte_from(args[1])}, other \in {Byte_from(args[2])} :
           Calls("Byte::xor", Byte_xor(self, other))

Call_Byte_not ==
    /\ call = "none"
    /\ \E self \in {Byte_from(args[1])} : Calls("Byte::not", Byte_not(self))

NextBitwise ==
    \/ Call_Byte_nand
    \/ Call_Byte_and
    \/ Call_Byte_or
    \/ Call_Byte_nor
    \/ Call_Byte_xnor
    \/ Call_Byte_xor
    \/ Call_Byte_not

SpecBitwise == InitBytes /\ [][NextBitwise]_vars

(***************************************************************************)
(* SpecAdders: add_with_carry on every left, right and carry, and the two  *)
(* adders of mux/bit.rs on the bits it gives them at position 0            *)
(*   ret = <<sum, carry, left, right>> of half_adder and                   *)
(*   <<sum, carry, left, right, carry given>> of full_adder                *)
(***************************************************************************)
Adders_half_adder ==
    /\ call = "none"
    /\ \E left \in {Byte_from(args[1])[0]}, right \in {Byte_from(args[2])[0]} :
           Calls("half_adder", half_adder(left, right) \o <<left, right>>)

Adders_full_adder ==
    /\ call = "none"
    /\ \E carry \in Bit, left \in {Byte_from(args[1])[0]}, right \in {Byte_from(args[2])[0]} :
           Calls("full_adder", full_adder(left, right, carry) \o <<left, right, carry>>)

NextAdders ==
    \/ Adders_half_adder
    \/ Adders_full_adder
    \/ Call_add_with_carry

SpecAdders == InitBytes /\ [][NextAdders]_vars

(***************************************************************************)
(* SpecSubtract: sub_with_carry called on every left, right and carry,     *)
(* beside the runs of alu, whose arm 176..192 is its only caller           *)
(***************************************************************************)
InitSubtract == InitBytes \/ Init

NextSubtract ==
    \/ status = "idle" /\ Call_sub_with_carry
    \/ Next

SpecSubtract == InitSubtract /\ [][NextSubtract]_vars

(***************************************************************************)
(* SpecConvert: Byte::from(u8) and u8::from(Byte), one after the other in  *)
(* either order, from every integer and from every bit pattern             *)
(*   args = <<"u8", n>> or <<"bits", pattern>>; ret = the values obtained  *)
(***************************************************************************)
InitConvert ==
    /\ Idle
    /\ NoStorage
    /\ call = "none"
    /\ args \in ({"u8"} \X U8) \cup ({"bits"} \X Byte)
    /\ ret = <<>>

\* the value the next conversion applies to, and its type
Converted == IF ret = <<>> THEN args[2] ELSE ret[Len(ret)]

ConvertedIsU8 == (args[1] = "u8") = (Len(ret) \in {0, 2})

Call_Byte_from ==
    /\ Len(ret) < 2
    /\ ConvertedIsU8
    /\ call' = "Byte::from"
    /\ ret' = Append(ret, Byte_from(Converted))
    /\ UNCHANGED <<machine, args>>

Call_u8_from ==
    /\ Len(ret) < 2
    /\ ~ConvertedIsU8
    /\ call' = "u8::from"
    /\ ret' = Append(ret, u8_from(Converted))
    /\ UNCHANGED <<machine, args>>

NextConvert == Call_Byte_from \/ Call_u8_from

SpecConvert == InitConvert /\ [][NextConvert]_vars

(***************************************************************************)
(* SpecStorage: a Registers stored to any number of times, or a Ram stored *)
(* to at most MaxRamStores times                                           *)
(*   call  the last call on it; args = <<address, value>> of a store;      *)
(*   ret   what load returns at every address, in the current state;       *)
(*   pc    the number of stores made to the Ram                            *)
(***************************************************************************)
\* bound: the stores made to one Ram
MaxRamStores == 2

\* the values stored to a register
StoredValues == {60, 165}

\* the <<address, value>> stored to the Ram: two cells, one of them rewritten
RamStores == {<<29, 60>>, <<196, 165>>, <<29, 165>>}

\* a register number as the [Bit; 2] that selects it
Select2(k) == from_fn([i \in 0 .. 1 |-> Bit_from(BitOfInt(k, i) = 1)])

\* load at every address of the Registers, and of the Ram
Registers_load_all(data) ==
    from_fn([k \in 0 .. 3 |-> Registers_load(data, Select2(k))])

Ram_load_all(data) ==
    from_fn([a \in 0 .. 255 |-> Ram_load(data, Byte_from(a))])

InitStorage ==
    /\ Idle
    /\ \/ /\ call = "Registers::new"
          /\ registers = Registers_new
          /\ memory = <<>>
          /\ ret = Registers_load_all(registers)
       \/ /\ call = "Ram::new"
          /\ registers = <<>>
          /\ memory = Ram_new
          /\ ret = Ram_load_all(memory)
    /\ args = <<>>

Call_Registers_store ==
    /\ call \in {"Registers::new", "Registers::store"}
    /\ \E k \in 0 .. 3, value \in StoredValues \cup {0} :
           /\ registers' = Registers_store(registers, Select2(k), Byte_from(value))
           /\ args' = <<k, value>>
    /\ call' = "Registers::store"
    /\ ret' = Registers_load_all(registers')
    /\ UNCHANGED <<program, pc, memory, overflow, out, status, panic>>

Call_Ram_store ==
    /\ call \in {"Ram::new", "Ram::store"}
    /\ pc < MaxRamStores
    /\ pc' = pc + 1
    /\ \E store \in RamStores :
           /\ memory' = Ram_store(memory, Byte_from(store[1]), Byte_from(store[2]))
           /\ args' = store
    /\ call' = "Ram::store"
    /\ ret' = Ram_load_all(memory')
    /\ UNCHANGED <<program, registers, overflow, out, status, panic>>

NextStorage == Call_Registers_store \/ Call_Ram_store

SpecStorage == InitStorage /\ [][NextStorage]_vars

(***************************************************************************)
(* SpecFabric: the mux and dmux of mux/bit.rs and mux/byte.rs, called on   *)
(* arrays of 2, 4, 16 and 256 inputs with every select                     *)
(*   args = <<m, k>>: the byte array holds (i * m + m) mod 256 at index i, *)
(*   the bit array its bit b, and select is the low bits of k;             *)
(*   ret = <<b, output>> of a mux on bits, <<output>> of a mux on bytes,   *)
(*   <<input, output>> of a dmux                                           *)
(***************************************************************************)
\* odd, so that the 256 bytes of an array differ from each other
FabricSeeds == {1, 37}

byte_array(m, n) == from_fn([i \in 0 .. n - 1 |-> Byte_from((i * m + m) % 256)])

bit_array(m, b, n) == from_fn([i \in 0 .. n - 1 |-> Byte_from((i * m + m) % 256)[b]])

\* array::from_fn(|i| Bit::from((k >> i) & 1 == 1)), n bits wide
select_array(k, n) == from_fn([i \in 0 .. n - 1 |-> Bit_from(u8_shr(k, i) % 2 = 1)])

InitFabric ==
    /\ Idle
    /\ NoStorage
    /\ call = "none"
    /\ args \in FabricSeeds \X U8
    /\ ret = <<>>

Fabric_bit_mux ==
    /\ call = "none"
    /\ \E b \in BitIndex :
           \E input \in {bit_array(args[1], b, 2)}, select \in {select_array(args[2], 1)} :
               Calls("bit::mux", <<b, bit_mux(input[0], input[1], select[0])>>)

Fabric_bit_mux4 ==
    /\ call = "none"
    /\ \E b \in BitIndex :
           \E input \in {bit_array(args[1], b, 4)}, select \in {select_array(args[2], 2)} :
               Calls("bit::mux4", <<b, bit_mux4(input, select)>>)

Fabric_bit_mux16 ==
    /\ call = "none"
    /\ \E b \in BitIndex :
           \E input \in {bit_array(args[1], b, 16)}, select \in {select_array(args[2], 4)} :
               Calls("bit::mux16", <<b, bit_mux16(input, select)>>)

Fabric_bit_mux256 ==
    /\ call = "none"
    /\ \E b \in BitIndex :
           \E input \in {bit_array(args[1], b, 256)}, select \in {select_array(args[2], 8)} :
               Calls("bit::mux256", <<b, bit_mux256(input, select)>>)

Fabric_mux ==
    /\ call = "none"
    /\ \E input \in {byte_array(args[1], 2)}, select \in {select_array(args[2], 1)} :
           Calls("byte::mux", <<mux(input[0], input[1], select[0])>>)

Fabric_mux4 ==
    /\ call = "none"
    /\ \E input \in {byte_array(args[1], 4)}, select \in {select_array(args[2], 2)} :
           Calls("byte::mux4", <<mux4(input, select)>>)

Fabric_mux16 ==
    /\ call = "none"
    /\ \E input \in {byte_array(args[1], 16)}, select \in {select_array(args[2], 4)} :
           Calls("byte::mux16", <<mux16(input, select)>>)

Fabric_mux256 ==
    /\ call = "none"
    /\ \E input \in {byte_array(args[1], 256)}, select \in {select_array(args[2], 8)} :
           Calls("byte::mux256", <<mux256(input, select)>>)

Fabric_bit_dmux ==
    /\ call = "none"
    /\ \E input \in Bit, select \in {select_array(args[2], 1)} :
           Calls("bit::dmux", <<input, bit_dmux(input, select[0])>>)

Fabric_bit_dmux4 ==
    /\ call = "none"
    /\ \E input \in Bit, select \in {select_array(args[2], 2)} :
           Calls("bit::dmux4", <<input, bit_dmux4(input, select)>>)

Fabric_bit_dmux16 ==
    /\ call = "none"
    /\ \E input \in Bit, select \in {select_array(args[2], 4)} :
           Calls("bit::dmux16", <<input, bit_dmux16(input, select)>>)

Fabric_bit_dmux256 ==
    /\ call = "none"
    /\ \E input \in Bit, select \in {select_array(args[2], 8)} :
           Calls("bit::dmux256", <<input, bit_dmux256(input, select)>>)

\* the byte a dmux on bytes is given: the zero byte or the seed
Fabric_dmux ==
    /\ call = "none"
    /\ \E v \in {0, args[1]} :
           \E input \in {Byte_from(v)}, select \in {select_array(args[2], 1)} :
               Calls("byte::dmux", <<v, dmux(input, select[0])>>)

Fabric_dmux4 ==
    /\ call = "none"
    /\ \E v \in {0, args[1]} :
           \E input \in {Byte_from(v)}, select \in {select_array(args[2], 2)} :
               Calls("byte::dmux4", <<v, dmux4(input, select)>>)

Fabric_dmux16 ==
    /\ call = "none"
    /\ \E v \in {0, args[1]} :
           \E input \in {Byte_from(v)}, select \in {select_array(args[2], 4)} :
               Calls("byte::dmux16", <<v, dmux16(input, select)>>)

Fabric_dmux256 ==
    /\ call = "none"
    /\ \E v \in {0, args[1]} :
           \E input \in {Byte_from(v)}, select \in {select_array(args[2], 8)} :
               Calls("byte::dmux256", <<v, dmux256(input, select)>>)

NextFabric ==
    \/ Fabric_bit_mux
    \/ Fabric_bit_mux4
    \/ Fabric_bit_mux16
    \/ Fabric_bit_mux256
    \/ Fabric_mux
    \/ Fabric_mux4
    \/ Fabric_mux16
    \/ Fabric_mux256
    \/ Fabric_bit_dmux
    \/ Fabric_bit_dmux4
    \/ Fabric_bit_dmux16
    \/ Fabric_bit_dmux256
    \/ Fabric_dmux
    \/ Fabric_dmux4
    \/ Fabric_dmux16
    \/ Fabric_dmux256

SpecFabric == InitFabric /\ [][NextFabric]_vars

(***************************************************************************)
(* What the claims below observe, in native integers and native indexing   *)
(***************************************************************************)
\* the unsigned value of register k (k in 0..3), read from the array itself
RegValue(k) == u8_from(registers[k])

\* the two register numbers an opcode byte names
LowOf(b) == b % 4

HighOf(b) == (b \div 4) % 4

\* the integer whose bit i is T(bit i of n, bit i of m)
RECURSIVE BitwiseFrom(_, _, _, _)
BitwiseFrom(T(_, _), n, m, i) ==
    IF i > 7
    THEN 0
    ELSE Pow2(i) * T(BitOfInt(n, i), BitOfInt(m, i)) + BitwiseFrom(T, n, m, i + 1)

Bitwise(T(_, _), n, m) == BitwiseFrom(T, n, m, 0)

TAnd(a, b) == a * b

TNand(a, b) == 1 - a * b

TOr(a, b) == a + b - a * b

TNor(a, b) == 1 - (a + b - a * b)

TXor(a, b) == (a + b) % 2

TXnor(a, b) == 1 - ((a + b) % 2)

\* the positions (bytes before them) at which the instructions of the
\* program start, from position p on: an opcode in 0..11 has an operand
RECURSIVE StartsFrom(_)
StartsFrom(p) ==
    IF p >= Len(program)
    THEN {}
    ELSE {p} \cup StartsFrom(p + (IF program[p + 1] <= 11 THEN 2 ELSE 1))

\* the starts of the instructions whose opcode was read so far
Executed == {p \in StartsFrom(0) : p < pc}

\* the bytes of the instruction that starts at p: opcode and operand
SizeAt(p) == IF program[p + 1] <= 11 THEN 2 ELSE 1

\* the program is a sequence of whole instructions with opcodes below 192
WellFormed ==
    \A p \in StartsFrom(0) :
        program[p + 1] <= 191 /\ p + SizeAt(p) <= Len(program)

WriteFailedMsg == <<"Failed to write byte to output">>

UnexpectedEndMsg == <<"Unexpected end of program">>

(***************************************************************************)
(* C1. A program [0, b1, 8, 255, ..., 0, bn, 8, 255] halts normally having *)
(* printed exactly b1..bn in that order (the sink accepting every          *)
(* character): it never panics for a bad opcode or a missing operand,      *)
(* after k of its instructions pairs it has printed b1..bk, and when alu   *)
(* returns every byte was read and the output is b1..bn.                   *)
(***************************************************************************)
C1_HelloWorld ==
    \A bs \in HelloInputs :
        program = HelloProgram(bs) =>
            /\ panic \in {<<>>, WriteFailedMsg}
            /\ panic = <<>> => out = SubSeq(bs, 1, pc \div 4)
            /\ status = "returned" => pc = 4 * Len(bs) /\ out = bs
            /\ (status = "running" /\ ~has_next) => out = bs

C1_Witness ==
    /\ program = HelloProgram(<<72, 105>>)
    /\ status = "returned"
    /\ out = <<72, 105>>

(***************************************************************************)
(* C2. Reading an opcode byte >= 192 ends the run at once with the panic   *)
(* "Invalid instruction" naming that byte; registers, RAM, overflow and    *)
(* output keep their values, no step follows a panic (so no later byte is  *)
(* read), and a program that starts with such a byte prints nothing.       *)
(***************************************************************************)
C2_InvalidStep ==
    /\ status = "running"
    /\ (has_next /\ opcode >= 192) =>
           /\ status' = "panicked"
           /\ panic' = <<"Invalid instruction", opcode>>
           /\ pc' = pc + 1
           /\ UNCHANGED <<program, registers, memory, overflow, out>>

C2_InvalidOpcode ==
    /\ [][C2_InvalidStep]_vars
    /\ []((Len(program) > 0 /\ program[1] >= 192) => out = <<>>)

C2_Witness ==
    /\ status = "panicked"
    /\ panic = <<"Invalid instruction", 200>>
    /\ pc = 9
    /\ Len(program) = 9
    /\ RegValue(1) = 202

(***************************************************************************)
(* C3. When the program ends right after an opcode byte in 0..11 the run   *)
(* ends with the panic "Unexpected end of program", which is not the       *)
(* invalid-opcode panic, and registers, RAM and output keep their values.  *)
(***************************************************************************)
C3_TruncatedStep ==
    (status = "running" /\ has_next /\ opcode \in 0 .. 11 /\ ~has_operand) =>
        /\ status' = "panicked"
        /\ panic' = UnexpectedEndMsg
        /\ panic'[1] # "Invalid instruction"
        /\ UNCHANGED <<registers, memory, overflow, out>>

C3_Truncated == [][C3_TruncatedStep]_vars

C3_Witness ==
    /\ status = "panicked"
    /\ panic = UnexpectedEndMsg
    /\ pc = 9
    /\ program[9] \in 8 .. 11
    /\ RegValue(program[9] % 4) # 0

(***************************************************************************)
(* C4. In every state a Registers (2-bit address) or a Ram (8-bit address) *)
(* reaches through stores, store(a, v) makes load(a) return v and leaves   *)
(* what load returns at every other address as it was before the store.    *)
(***************************************************************************)
C4_StoreStep ==
    /\ call' = "Registers::store" =>
           /\ DOMAIN ret' = 0 .. 3
           /\ \A k \in 0 .. 3 :
                  ret'[k] = IF k = args'[1] THEN Byte_from(args'[2]) ELSE ret[k]
    /\ call' = "Ram::store" =>
           /\ DOMAIN ret' = 0 .. 255
           /\ \A a \in 0 .. 255 :
                  ret'[a] = IF a = args'[1] THEN Byte_from(args'[2]) ELSE ret[a]

C4_StoreThenLoad == [][C4_StoreStep]_vars

\* a Ram with both cells stored to, the second store having kept the first
C4_Witness ==
    /\ call = "Ram::store"
    /\ args = <<196, 165>>
    /\ u8_from(ret[196]) = 165
    /\ u8_from(ret[29]) = 60
    /\ u8_from(ret[28]) = 0

(***************************************************************************)
(* C5. For all left, right in 0..255 the sum byte of add(left, right) is   *)
(* (left + right) mod 256 and the sum byte of                              *)
(* add_with_carry(left, right, High) is (left + right + 1) mod 256.        *)
(***************************************************************************)
C5_AddSums ==
    /\ call = "add" => u8_from(ret[1]) = (args[1] + args[2]) % 256
    /\ (call = "add_with_carry" /\ ret[3] = High) =>
           u8_from(ret[1]) = (args[1] + args[2] + 1) % 256

\* a sum that wraps, with the carry rippling through every position
C5_Witness ==
    /\ call = "add_with_carry"
    /\ ret[3] = High
    /\ args = <<255, 0>>
    /\ u8_from(ret[1]) = 0

(***************************************************************************)
(* C6. For all left, right in 0..255 the result byte of sub(left, right)   *)
(* is (left - right) mod 256, that of sub_with_carry(left, right, High) is *)
(* (left - right - 1) mod 256 and that of sub_with_carry(left, right, Low) *)
(* is (left - right) mod 256.                                              *)
(***************************************************************************)
C6_SubResults ==
    /\ call = "sub" => u8_from(ret[1]) = (args[1] - args[2]) % 256
    /\ (call = "sub_with_carry" /\ ret[3] = High) =>
           u8_from(ret[1]) = (args[1] - args[2] - 1) % 256
    /\ (call = "sub_with_carry" /\ ret[3] = Low) =>
           u8_from(ret[1]) = (args[1] - args[2]) % 256

\* a difference that borrows twice: 0 - 255 - 1 = 0 mod 256
C6_Witness ==
    /\ call = "sub_with_carry"
    /\ ret[3] = High
    /\ args = <<0, 255>>
    /\ u8_from(ret[1]) = 0

(***************************************************************************)
(* C7. The gates derived from nand have their truth tables: nand is Low    *)
(* only for two High inputs, not is the complement, and is High only for   *)
(* two High inputs, or is Low only for two Low inputs, nor is the          *)
(* complement of or, xor is High exactly when the inputs differ and xnor   *)
(* is the complement of xor.                                               *)
(***************************************************************************)
C7_TruthTables ==
    LET a == args[1][0]
        b == args[1][1]
    IN  /\ call = "nand" => (ret = Low <=> (a = High /\ b = High))
        /\ call = "not" => (ret = High <=> a = Low)
        /\ call = "and" => (ret = High <=> (a = High /\ b = High))
        /\ call = "or" => (ret = Low <=> (a = Low /\ b = Low))
        /\ call = "nor" => (ret = High <=> (a = Low /\ b = Low))
        /\ call = "xor" => (ret = High <=> a # b)
        /\ call = "xnor" => (ret = High <=> a = b)
        /\ call \in {"nand", "not", "and", "or", "nor", "xor", "xnor"} => ret \in Bit

C7_Witness ==
    /\ call = "xnor"
    /\ args[1][0] = Low
    /\ args[1][1] = Low
    /\ ret = High

(***************************************************************************)
(* C8. An integer n in 0..255 converted to a Byte has at index i the bit   *)
(* of weight 2^i of n, and converted back it is n again; and an 8-bit      *)
(* pattern converted to an integer and back is the same pattern.           *)
(***************************************************************************)
C8_RoundTrip ==
    /\ (args[1] = "u8" /\ Len(ret) >= 1) =>
           \A i \in BitIndex : ret[1][i] = High <=> BitOfInt(args[2], i) = 1
    /\ (args[1] = "bits" /\ Len(ret) >= 1) => ret[1] \in U8
    /\ Len(ret) = 2 => ret[2] = args[2]

C8_Witness ==
    /\ args = <<"u8", 77>>
    /\ Len(ret) = 2
    /\ ret[1][0] = High
    /\ ret[1][1] = Low
    /\ ret[2] = 77

C8_WitnessBits ==
    /\ args[1] = "bits"
    /\ Len(ret) = 2
    /\ ret[1] = 178
    /\ ret[2] = args[2]

(***************************************************************************)
(* C9. A step prints a character exactly when it executes a Store memory   *)
(* (opcode 8..11) with address operand 255: RAM cell 255 then holds the    *)
(* byte registers[low] had, and one character of that unsigned value is    *)
(* written to the sink, which appends it to the output (or refuses it,     *)
(* which ends the run with the write panic).  A Store memory to another    *)
(* address, and every other step, leaves the output as it was.             *)
(***************************************************************************)
C9_OutputStep ==
    IF /\ status = "running" /\ has_next /\ opcode \in 8 .. 11
       /\ has_operand /\ item(2) = 255
    THEN /\ memory'[255] = registers[LowOf(opcode)]
         /\ \/ /\ status' = "running"
               /\ out' = Append(out, RegValue(LowOf(opcode)))
            \/ /\ status' = "panicked"
               /\ panic' = WriteFailedMsg
               /\ out' = out
    ELSE out' = out

C9_OutputPort == [][C9_OutputStep]_vars

C9_Witness ==
    /\ status = "running"
    /\ pc = 10
    /\ program[9] = 9
    /\ program[10] = 255
    /\ out = <<202>>
    /\ u8_from(memory[255]) = 202

(***************************************************************************)
(* C10. An opcode byte b in 16..127 is a whole instruction (one byte) and  *)
(* sets registers[high] to: registers[low] (16..31), and the bitwise nand, *)
(* and, nor, or, xnor, xor of the old registers[high] and registers[low]   *)
(* (32..47, 48..63, 64..79, 80..95, 96..111, 112..127), with low = b mod 4 *)
(* and high = (b div 4) mod 4, equal or not.                               *)
(***************************************************************************)
C10_Expected(b, h, l) ==
    CASE b \in 16 .. 31 -> l
      [] b \in 32 .. 47 -> Bitwise(TNand, h, l)
      [] b \in 48 .. 63 -> Bitwise(TAnd, h, l)
      [] b \in 64 .. 79 -> Bitwise(TNor, h, l)
      [] b \in 80 .. 95 -> Bitwise(TOr, h, l)
      [] b \in 96 .. 111 -> Bitwise(TXnor, h, l)
      [] b \in 112 .. 127 -> Bitwise(TXor, h, l)

C10_RegisterStep ==
    (status = "running" /\ has_next /\ opcode \in 16 .. 127) =>
        /\ pc' = pc + 1
        /\ status' = "running"
        /\ u8_from(registers'[HighOf(opcode)])
             = C10_Expected(opcode, RegValue(HighOf(opcode)), RegValue(LowOf(opcode)))

C10_TwoRegisterOps == [][C10_RegisterStep]_vars

\* Nand r2, r1 after the preamble 53, 202, 15, 255: 15 nand 202 = 245
C10_Witness ==
    /\ status = "running"
    /\ pc = 9
    /\ program[9] = 41
    /\ RegValue(1) = 202
    /\ RegValue(2) = 245

(***************************************************************************)
(* C11. Add (128..143) sets registers[high] to (h + l) mod 256 and the     *)
(* overflow flag to High exactly when h + l >= 256; AddOverflow (144..159) *)
(* does the same with h + l + c, c the old flag.  Hence Add on the low     *)
(* bytes of two 16-bit numbers X and Y held in four distinct registers,    *)
(* followed by AddOverflow on their high bytes, leaves (X + Y) mod 65536   *)
(* in the registers of X and the flag High exactly when X + Y >= 65536.    *)
(***************************************************************************)
C11_AddStep ==
    (status = "running" /\ has_next /\ opcode \in 128 .. 159) =>
        LET h == RegValue(HighOf(opcode))
            l == RegValue(LowOf(opcode))
            c == IF opcode >= 144 /\ overflow = High THEN 1 ELSE 0
        IN  /\ pc' = pc + 1
            /\ status' = "running"
            /\ u8_from(registers'[HighOf(opcode)]) = (h + l + c) % 256
            /\ overflow' = High <=> h + l + c >= 256

C11_WideSum ==
    \A v \in [1 .. 4 -> WideBytes], w \in WideLayouts :
        (program = WideAdd(v, w) /\ pc = 10) =>
            LET X == v[w[1] + 1] + 256 * v[w[2] + 1]
                Y == v[w[3] + 1] + 256 * v[w[4] + 1]
            IN  /\ RegValue(w[1]) + 256 * RegValue(w[2]) = (X + Y) % 65536
                /\ overflow = High <=> X + Y >= 65536

C11_WideAddition == [][C11_AddStep]_vars /\ []C11_WideSum

\* 511 + 1 = 512: the low bytes 255 + 1 carry into the high bytes 1 + 0
C11_Witness ==
    /\ program = WideAdd(<<255, 1, 1, 0>>, <<0, 1, 2, 3>>)
    /\ pc = 10
    /\ RegValue(0) = 0
    /\ RegValue(1) = 2
    /\ overflow = Low

\* 65535 + 1 = 65536: the sum leaves 16 bits only through the carry of Add
C11_WitnessOverflow ==
    /\ program = WideAdd(<<0, 1, 255, 255>>, <<3, 2, 1, 0>>)
    /\ pc = 10
    /\ RegValue(3) = 0
    /\ RegValue(2) = 0
    /\ overflow = High

(***************************************************************************)
(* C12. After Sub (160..175) the overflow flag is High exactly when the    *)
(* subtraction borrowed (old registers[high] < old registers[low]), so     *)
(* that a SubOverflow that follows it subtracts the extra 1 exactly when   *)
(* the Sub borrowed: after Sub on the low bytes of X and Y, SubOverflow on *)
(* the high bytes leaves (xh - yh - 1) mod 256 if xl < yl and              *)
(* (xh - yh) mod 256 otherwise.                                            *)
(***************************************************************************)
C12_SubStep ==
    (status = "running" /\ has_next /\ opcode \in 160 .. 175) =>
        (overflow' = High <=> RegValue(HighOf(opcode)) < RegValue(LowOf(opcode)))

C12_ChainedStep ==
    \A v \in [1 .. 4 -> WideBytes], w \in WideLayouts :
        (program = WideSub(v, w) /\ pc = 9 /\ status = "running") =>
            LET borrow == IF v[w[1] + 1] < v[w[3] + 1] THEN 1 ELSE 0
            IN  u8_from(registers'[w[2]])
                    = (256 + v[w[2] + 1] - v[w[4] + 1] - borrow) % 256

C12_SubBorrow == [][C12_SubStep /\ C12_ChainedStep]_vars

(***************************************************************************)
(* What the claims on assembled programs observe                           *)
(***************************************************************************)
\* the number of a register name
RegNum(r) == CHOOSE n \in 0 .. 3 : <<"R0", "R1", "R2", "R3">>[n + 1] = r

\* the opcode base of the interpreter for a two-register instruction
BaseOf(name) ==
    CASE name = "Move" -> 16
      [] name = "Nand" -> 32
      [] name = "And" -> 48
      [] name = "Nor" -> 64
      [] name = "Or" -> 80
      [] name = "Xnor" -> 96
      [] name = "Xor" -> 112
      [] name = "Add" -> 128
      [] name = "AddOverflow" -> 144
      [] name = "Sub" -> 160
      [] name = "SubOverflow" -> 176

\* what a two-register operation leaves in its destination, the flag Low
ResultOf(name, h, l) ==
    CASE name \in {"Add", "AddOverflow"} -> (h + l) % 256
      [] name \in {"Sub", "SubOverflow"} -> (256 + h - l) % 256
      [] OTHER -> C10_Expected(BaseOf(name), h, l)

(***************************************************************************)
(* C13. For every two-register instruction (Move .. SubOverflow) with      *)
(* operands (left, right), to_bytes emits one opcode byte                  *)
(* base | (left << 2) | right; run after the registers were loaded, the    *)
(* stream applies the operation with destination left and source right,    *)
(* reads no byte as anything else and halts normally.                      *)
(***************************************************************************)
C13_TwoRegisterEncoding ==
    \A i \in TwoRegisterInstructions :
        args[1] = AsmPreamble \o <<i>> =>
            LET left == RegNum(i[2])
                right == RegNum(i[3])
            IN  /\ ret = to_bytes(AsmPreamble) \o <<BaseOf(i[1]) + 4 * left + right>>
                /\ status # "panicked"
                /\ pc > 8 =>
                       /\ pc = 9
                       /\ RegValue(left)
                            = ResultOf(i[1], AsmPreambleValues[left + 1],
                                       AsmPreambleValues[right + 1])

(***************************************************************************)
(* C14. For every pair of registers, to_bytes encodes SubOverflow with an  *)
(* opcode byte in 176..191, which the interpreter dispatches to Sub with   *)
(* overflow (the SubOverflow arm) and to no other operation.               *)
(***************************************************************************)
C14_SubOverflowStep ==
    \A left \in Register, right \in Register :
        (/\ args[1] = AsmPreamble \o <<<<"SubOverflow", left, right>>>>
         /\ pc = 8
         /\ status = "running") =>
            /\ opcode \in 176 .. 191
            /\ SubOverflow

C14_SubOverflowOpcode == [][C14_SubOverflowStep]_vars

(***************************************************************************)
(* C15. For every sequence of LoadConstant(r, v), LoadMemory(r, a),        *)
(* StoreMemory(r, a) and Not(r), to_bytes emits [r, v], [4|r, a],          *)
(* [8|r, a], [12|r] concatenated in order; the run of that stream performs *)
(* exactly those instructions in that order, one per step, and halts       *)
(* normally (a store to the port 255 writes the character to the sink).    *)
(***************************************************************************)
C15_Bytes(i) ==
    CASE i[1] = "LoadConstant" -> <<RegNum(i[2]), i[3]>>
      [] i[1] = "LoadMemory" -> <<4 + RegNum(i[2]), i[3]>>
      [] i[1] = "StoreMemory" -> <<8 + RegNum(i[2]), i[3]>>
      [] i[1] = "Not" -> <<12 + RegNum(i[2])>>

RECURSIVE C15_Concat(_)
C15_Concat(is) ==
    IF is = <<>> THEN <<>> ELSE C15_Bytes(Head(is)) \o C15_Concat(Tail(is))

C15_IsSingle(is) == \A k \in 1 .. Len(is) : is[k][1] \in SingleRegisterNames

C15_OthersKept(n) == \A j \in 0 .. 3 : j # n => registers'[j] = registers[j]

C15_Performs(i) ==
    LET n == RegNum(i[2])
    IN  CASE i[1] = "LoadConstant" ->
               /\ u8_from(registers'[n]) = i[3]
               /\ C15_OthersKept(n)
               /\ UNCHANGED <<memory, overflow, out, status>>
          [] i[1] = "LoadMemory" ->
               /\ registers'[n] = memory[i[3]]
               /\ C15_OthersKept(n)
               /\ UNCHANGED <<memory, overflow, out, status>>
          [] i[1] = "StoreMemory" ->
               /\ \A a \in 0 .. 255 :
                      memory'[a] = IF a = i[3] THEN registers[n] ELSE memory[a]
               /\ UNCHANGED <<registers, overflow>>
               /\ \/ /\ status' = "running"
                     /\ out' = IF i[3] = 255 THEN Append(out, RegValue(n)) ELSE out
                  \/ /\ i[3] = 255
                     /\ status' = "panicked"
                     /\ panic' = WriteFailedMsg
                     /\ out' = out
          [] i[1] = "Not" ->
               /\ u8_from(registers'[n]) = 255 - RegValue(n)
               /\ C15_OthersKept(n)
               /\ UNCHANGED <<memory, overflow, out, status>>

C15_Step ==
    (C15_IsSingle(args[1]) /\ status = "running") =>
        IF has_next
        THEN \E k \in 0 .. Len(args[1]) - 1 :
                 /\ pc = Len(C15_Concat(SubSeq(args[1], 1, k)))
                 /\ pc' = Len(C15_Concat(SubSeq(args[1], 1, k + 1)))
                 /\ C15_Performs(args[1][k + 1])
        ELSE /\ status' = "returned"
             /\ UNCHANGED <<registers, memory, overflow, out>>

C15_Ends ==
    C15_IsSingle(args[1]) =>
        /\ ret = C15_Concat(args[1])
        /\ program = ret
        /\ status = "panicked" => panic = WriteFailedMsg
        /\ status = "returned" => pc = Len(ret)

C15_SingleRegister == [][C15_Step]_vars /\ []C15_Ends

\* LoadConstant(R1, 9), StoreMemory(R1, 255): [1, 9, 9, 255] prints 9
C15_Witness ==
    /\ args = <<<<<<"LoadConstant", "R1", 9>>, <<"StoreMemory", "R1", 255>>>>>>
    /\ program = <<1, 9, 9, 255>>
    /\ status = "returned"
    /\ out = <<9>>
    /\ u8_from(memory[255]) = 9

(***************************************************************************)
(* C16. Every run, with any output sink, ends in exactly one of three      *)
(* outcomes: the normal halt, the truncated-program error and the          *)
(* invalid-opcode error; there is no other fatal outcome.                  *)
(***************************************************************************)
C16_ThreeOutcomes ==
    /\ status \in {"running", "returned", "panicked"}
    /\ status = "panicked" =>
           \/ panic = UnexpectedEndMsg
           \/ Len(panic) = 2 /\ panic[1] = "Invalid instruction"

(***************************************************************************)
(* C17. Every run starts with the 4 registers zero, the 256 RAM cells zero *)
(* and overflow Low, whatever an earlier run left: a Load memory from an   *)
(* address no instruction of this run has stored to yields 0, and an       *)
(* AddOverflow or SubOverflow before any arithmetic instruction of this    *)
(* run sees carry-in Low (it gives h + l and h - l mod 256).               *)
(***************************************************************************)
\* the addresses stored to, and whether an arithmetic instruction ran,
\* in the instructions of this run that start at byte i or later, up to pc
RECURSIVE C17_StoredFrom(_)
C17_StoredFrom(i) ==
    IF i > pc
    THEN {}
    ELSE IF program[i] \in 8 .. 11
         THEN {program[i + 1]} \cup C17_StoredFrom(i + 2)
         ELSE C17_StoredFrom(IF program[i] < 12 THEN i + 2 ELSE i + 1)

RECURSIVE C17_ArithmeticFrom(_)
C17_ArithmeticFrom(i) ==
    IF i > pc
    THEN FALSE
    ELSE \/ program[i] \in 128 .. 191
         \/ C17_ArithmeticFrom(IF program[i] < 12 THEN i + 2 ELSE i + 1)

C17_Fresh ==
    (pc = 0 /\ status = "running") =>
        /\ \A k \in 0 .. 3 : \A i \in 0 .. 7 : registers[k][i] = Low
        /\ \A a \in 0 .. 255 : \A i \in 0 .. 7 : memory[a][i] = Low
        /\ overflow = Low

C17_Step ==
    (status = "running" /\ has_next) =>
        /\ (opcode \in 4 .. 7 /\ has_operand /\ item(2) \notin C17_StoredFrom(1)) =>
               u8_from(registers'[LowOf(opcode)]) = 0
        /\ (opcode \in 144 .. 159 /\ ~C17_ArithmeticFrom(1)) =>
               /\ overflow = Low
               /\ u8_from(registers'[HighOf(opcode)])
                    = (RegValue(HighOf(opcode)) + RegValue(LowOf(opcode))) % 256
        /\ (opcode \in 176 .. 191 /\ ~C17_ArithmeticFrom(1)) =>
               /\ overflow = Low
               /\ u8_from(registers'[HighOf(opcode)])
                    = (256 + RegValue(HighOf(opcode)) - RegValue(LowOf(opcode))) % 256

C17_FreshRun == [][C17_Step]_vars /\ []C17_Fresh

\* after a run that left the flag High and registers not zero:
\* SubOverflow r1, r3 on the reloaded registers gives 202 - 255 = 203
C17_Witness ==
    /\ call = "alu"
    /\ ret = <<High, TRUE, FALSE>>
    /\ program = LoadAll(<<53, 202, 15, 255>>) \o <<183>>
    /\ pc = 9
    /\ RegValue(1) = 203

\* after a run that left registers and memory not zero, Load memory r1
\* from cell 255 yields 0
C17_WitnessLoad ==
    /\ call = "alu"
    /\ ret = <<Low, TRUE, TRUE>>
    /\ program = <<5, 255>>
    /\ pc = 2
    /\ RegValue(1) = 0

(***************************************************************************)
(* C18. For N in {4, 16, 256}, on bits and on bytes, muxN(input, select)   *)
(* is input[k], k the sum of 2^i over the High bits select[i]; and         *)
(* mux(a, b, s) is a when s is Low and b when s is High.                   *)
(***************************************************************************)
\* the N of the function called, by the end of its name
C18_Inputs ==
    CASE call \in {"bit::mux", "byte::mux", "bit::dmux", "byte::dmux"} -> 2
      [] call \in {"bit::mux4", "byte::mux4", "bit::dmux4", "byte::dmux4"} -> 4
      [] call \in {"bit::mux16", "byte::mux16", "bit::dmux16", "byte::dmux16"} -> 16
      [] OTHER -> 256

\* the integer the select bits spell, and the byte the array holds there
C18_Selected == args[2] % C18_Inputs

C18_ByteAt(i) == (i * args[1] + args[1]) % 256

C18_MuxSelects ==
    /\ call \in {"bit::mux", "bit::mux4", "bit::mux16", "bit::mux256"} =>
           ret[2] = (BitOfInt(C18_ByteAt(C18_Selected), ret[1]) = 1)
    /\ call \in {"byte::mux", "byte::mux4", "byte::mux16", "byte::mux256"} =>
           u8_from(ret[1]) = C18_ByteAt(C18_Selected)

\* mux256 on bytes with select 1011 0110 = 182 of the array 37 i + 37
C18_Witness ==
    /\ call = "byte::mux256"
    /\ args = <<37, 182>>
    /\ u8_from(ret[1]) = 115

\* mux16 on bits, bit 3 of the array i + 1, with select 0111 = 7: input[7] = 8
C18_WitnessBit ==
    /\ call = "bit::mux16"
    /\ args = <<1, 7>>
    /\ ret = <<3, High>>

(***************************************************************************)
(* C19. For N in {4, 16, 256}, on bits and on bytes, dmuxN(input, select)  *)
(* holds input at the position k that select spells and Low (the zero      *)
(* byte) at every other position, so all outputs are Low for a Low input;  *)
(* dmux(input, s) is (input, Low) for s Low and (Low, input) for s High.   *)
(***************************************************************************)
\* the output at position i (from 0) of a dmux: the pair of dmux is a tuple
C19_Output(i) == IF call \in {"bit::dmux", "byte::dmux"} THEN ret[2][i + 1] ELSE ret[2][i]

C19_Positions ==
    IF call \in {"bit::dmux", "byte::dmux"}
    THEN {n - 1 : n \in DOMAIN ret[2]}
    ELSE DOMAIN ret[2]

C19_DmuxOneHot ==
    /\ call \in {"bit::dmux", "bit::dmux4", "bit::dmux16", "bit::dmux256"} =>
           /\ C19_Positions = 0 .. C18_Inputs - 1
           /\ \A i \in 0 .. C18_Inputs - 1 :
                  C19_Output(i) = IF i = C18_Selected THEN ret[1] ELSE Low
    /\ call \in {"byte::dmux", "byte::dmux4", "byte::dmux16", "byte::dmux256"} =>
           /\ C19_Positions = 0 .. C18_Inputs - 1
           /\ \A i \in 0 .. C18_Inputs - 1 :
                  u8_from(C19_Output(i)) = IF i = C18_Selected THEN ret[1] ELSE 0

\* dmux256 of the byte 37 with select 182
C19_Witness ==
    /\ call = "byte::dmux256"
    /\ args = <<37, 182>>
    /\ ret[1] = 37
    /\ u8_from(ret[2][182]) = 37
    /\ u8_from(ret[2][183]) = 0
    /\ u8_from(ret[2][37]) = 0

\* dmux16 of a High bit with select 1001 = 9
C19_WitnessBit ==
    /\ call = "bit::dmux16"
    /\ args[2] % 16 = 9
    /\ ret[1] = High
    /\ ret[2][9] = High
    /\ ret[2][6] = Low


(***************************************************************************)
(* C20. The fabric-based Registers and Ram return from every load the byte *)
(* a plain array, zero at first, holds at that index; hence the alu whose  *)
(* memory is a natively indexed array and the alu that goes through Ram    *)
(* have the same registers, RAM contents and overflow after every          *)
(* instruction of every program, and end the same way (a sink that         *)
(* refuses a character apart, which only the alu with an output has).      *)
(***************************************************************************)
C20_SameContents ==
    (call = "src::alu" /\ ret.pc = pc) =>
        /\ \A k \in 0 .. 3 : Registers_load(registers, Select2(k)) = ret.registers[k]
        /\ \A a \in 0 .. 255 : memory[a] = ret.memory[a]
        /\ overflow = ret.overflow
        /\ (pc > 1 /\ program[pc - 1] \in 8 .. 11) =>
               Ram_load(memory, Byte_from(program[pc])) = ret.memory[program[pc]]
        /\ status # "running" =>
               \/ status = ret.status /\ panic = ret.panic
               \/ panic = WriteFailedMsg

\* both have run [13, 9, 9]: Not r1, then Store memory r1 to cell 9
C20_Witness ==
    /\ call = "src::alu"
    /\ program = <<13, 9, 9>>
    /\ status = "returned"
    /\ ret.status = "returned"
    /\ u8_from(ret.memory[9]) = 255
    /\ u8_from(memory[9]) = 255

(***************************************************************************)
(* C21. Only a step that executes an opcode in 128..191 changes the        *)
(* overflow flag: every instruction 0..127, a panic and the return leave   *)
(* it as it was.  The flag is Low while no arithmetic instruction was      *)
(* executed, and AddOverflow and SubOverflow compute with the flag as the  *)
(* last arithmetic instruction left it, whatever was executed in between:  *)
(* after a setter, any keepers and a user, r3 is 0 + 1 + c or 0 - 1 - c    *)
(* with c the carry the setter left.                                       *)
(***************************************************************************)
C21_FrameStep ==
    (status = "running" /\ ~(has_next /\ opcode \in 128 .. 191)) =>
        overflow' = overflow

C21_ConsumeStep ==
    (status = "running" /\ has_next /\ opcode \in (144 .. 159) \cup (176 .. 191)) =>
        LET h == RegValue(HighOf(opcode))
            l == RegValue(LowOf(opcode))
            c == IF overflow = High THEN 1 ELSE 0
        IN  u8_from(registers'[HighOf(opcode)])
                = IF opcode < 160 THEN (h + l + c) % 256 ELSE (h - l - c) % 256

C21_LowBefore ==
    (\A p \in Executed : program[p + 1] \notin 128 .. 191) => overflow = Low

\* the flag each setter leaves on r0 = 255, r1 = 1
C21_Left(a) == IF a \in {132, 165} THEN 1 ELSE 0

C21_Carried ==
    \A a \in CarrySetters, m \in CarryKeepers, c \in CarryUsers :
        (program = CarryProgram(a, m, c) /\ pc = Len(program) /\ panic = <<>>) =>
            RegValue(3) = IF c = 158 THEN 1 + C21_Left(a) ELSE 255 - C21_Left(a)

C21_FlagFrame ==
    /\ [][C21_FrameStep /\ C21_ConsumeStep]_vars
    /\ [](C21_LowBefore /\ C21_Carried)

\* Add leaves High, seven instructions on r0, r1 and memory follow, and
\* AddOverflow r3 += r2 gives 0 + 1 + 1
C21_Witness ==
    /\ program = CarryProgram(132, <<0, 7, 8, 9, 5, 9, 17>>, 158)
    /\ status = "returned"
    /\ RegValue(3) = 2
    /\ RegValue(0) = 7
    /\ overflow = Low

\* Sub leaves Low, the logic instructions follow, and SubOverflow r3 -= r2
\* gives 0 - 1 - 0
C21_WitnessSub ==
    /\ program = CarryProgram(164, <<13, 33, 49, 65, 81, 97, 113>>, 190)
    /\ status = "returned"
    /\ RegValue(3) = 255

(***************************************************************************)
(* C22. In every step of a run the Ram array changes only when a Store     *)
(* memory instruction (8..11) executes, and then in the addressed cell     *)
(* only; a register changes only when an instruction executes of which it  *)
(* is the destination, registers[low] for opcodes 0..7 and 12..15 and      *)
(* registers[high] for opcodes 16..191; Store memory, a panic and the      *)
(* return change no register; and both arrays keep their sizes.            *)
(***************************************************************************)
C22_Destination(b) == IF b <= 15 THEN LowOf(b) ELSE HighOf(b)

C22_Step ==
    status = "running" =>
        /\ DOMAIN memory' = 0 .. 255
        /\ DOMAIN registers' = 0 .. 3
        /\ \A a \in 0 .. 255 :
               memory'[a] # memory[a] =>
                   /\ has_next /\ opcode \in 8 .. 11 /\ has_operand
                   /\ a = item(2)
        /\ \A k \in 0 .. 3 :
               registers'[k] # registers[k] =>
                   /\ has_next /\ opcode \in (0 .. 7) \cup (12 .. 191)
                   /\ k = C22_Destination(opcode)
                   /\ status' = "running"

C22_Frame == [][C22_Step]_vars

\* the third store overwrites cell 9 while cell 10 holds another value
C22_Witness ==
    /\ program = CarryProgram(133, <<8, 9, 9, 10, 10, 9>>, 190)
    /\ pc = 15
    /\ u8_from(memory[9]) = 1
    /\ u8_from(memory[10]) = 2
    /\ RegValue(0) = 255
    /\ RegValue(1) = 2

\* a two-register instruction on registers that all differ
C22_WitnessRegister ==
    /\ program = LoadAll(<<53, 202, 15, 255>>) \o <<118>>
    /\ pc = 9
    /\ RegValue(0) = 53
    /\ RegValue(1) = 202 + 15 - 2 * 10
    /\ RegValue(2) = 15
    /\ RegValue(3) = 255

(***************************************************************************)
(* C23. Every run halts, by returning or by a panic.  Each iteration of    *)
(* the loop reads the next unread bytes of the program and never an        *)
(* earlier one: 2 bytes for an instruction with opcode in 0..11, 1 byte    *)
(* for an opcode in 12..191, so that no run makes more iterations than the *)
(* program has bytes; the loop head is reached at the starts of            *)
(* instructions only.  alu returns exactly when the bytes are used up at   *)
(* the loop head; used up after an opcode 0..11 it panics instead.  No     *)
(* step follows the halt.                                                  *)
(***************************************************************************)
C23_Step ==
    /\ status = "running"
    /\ program' = program
    /\ IF has_next
       THEN /\ status' # "returned"
            /\ (opcode \in 0 .. 11 /\ has_operand) => pc' = pc + 2
            /\ (opcode \in 0 .. 11 /\ ~has_operand) =>
                   pc' = pc + 1 /\ status' = "panicked"
            /\ opcode \in 12 .. 191 => pc' = pc + 1 /\ status' = "running"
            /\ opcode >= 192 => pc' = pc + 1 /\ status' = "panicked"
       ELSE /\ status' = "returned"
            /\ pc' = pc

C23_Position ==
    /\ pc <= Len(program)
    /\ Cardinality(Executed) <= pc
    /\ status = "running" => pc \in StartsFrom(0) \cup {Len(program)}
    /\ status = "returned" => pc = Len(program) /\ WellFormed
    /\ (status = "panicked" /\ panic # WriteFailedMsg) => ~WellFormed
    /\ (status = "panicked" /\ panic = UnexpectedEndMsg) =>
           pc = Len(program) /\ pc - 1 \in StartsFrom(0)

C23_Halts == <>(status \in {"returned", "panicked"})

C23_Terminates == [][C23_Step]_vars /\ []C23_Position /\ C23_Halts

\* 17 bytes read in 10 iterations, then the return
C23_Witness ==
    /\ program = CarryProgram(164, <<0, 7, 8, 9, 5, 9, 17>>, 158)
    /\ status = "returned"
    /\ pc = 17
    /\ Cardinality(Executed) = 10

\* the bytes used up after the opcode of a Load memory
C23_WitnessTruncated ==
    /\ program = <<13, 29, 5>>
    /\ status = "panicked"
    /\ pc = 3
    /\ Cardinality(Executed) = 3

(***************************************************************************)
(* C24. When a run has panicked in the instruction that starts at position *)
(* p, the output it has emitted and its registers, Ram and overflow flag   *)
(* are those the run of program[0..p) has when it returns: the             *)
(* instructions before p were executed once each and the instruction at p  *)
(* has changed nothing.                                                    *)
(***************************************************************************)
C24_NoPartialCommit ==
    (call = "alu" /\ status = "returned") =>
        <<registers, memory, overflow, out>> = args

\* the same for the two panics that precede every store of their arm
C24_CommitsNothingBeforeStores ==
    (call = "alu" /\ status = "returned" /\ ret # WriteFailedMsg) =>
        <<registers, memory, overflow, out>> = args

\* the panic of the arm 8..12: cell 255 alone differs from the prefix run
C24_StoreCommitted ==
    (call = "alu" /\ status = "returned" /\ ret = WriteFailedMsg) =>
        /\ <<registers, overflow, out>> = <<args[1], args[3], args[4]>>
        /\ \A a \in 0 .. 254 : memory[a] = args[2][a]

(***************************************************************************)
(* C25. sub_with_carry returns the carry High for every left, right and    *)
(* carry given, and so every SubOverflow instruction (176..191) leaves the *)
(* overflow flag High, whatever its registers and the flag held.           *)
(***************************************************************************)
C25_SubOverflowStep ==
    (status = "running" /\ has_next /\ opcode \in 176 .. 191) => overflow' = High

C25_CarryHigh == call = "sub_with_carry" => ret[2] = High

C25_WitnessInstruction ==
    /\ program = WideSub(<<0, 0, 0, 255>>, <<0, 1, 2, 3>>)
    /\ pc = 10
    /\ RegValue(1) = 0
    /\ overflow = High

(***************************************************************************)
(* C26. half_adder(l, r) returns (sum, carry) with 2 carry + sum = l + r   *)
(* and full_adder(l, r, c) returns (sum, carry) with                       *)
(* 2 carry + sum = l + r + c, for all bits.  add_with_carry is the full    *)
(* adder applied at positions 0, 1, ..., 7 in this order, the carry of     *)
(* each position being the carry given to the next and the carry of        *)
(* position 7 the carry returned: the carry into position i is the carry   *)
(* out of the sum of the i low bits of left and right and the carry given. *)
(***************************************************************************)
\* the carry into position i of left + right + c, natively: the carry out of
\* the sum of the i low bits of left and of right and c
C26_CarryInto(left, right, c, i) == ((left % Pow2(i)) + (right % Pow2(i)) + c) \div Pow2(i)

C26_Adders ==
    /\ call = "half_adder" =>
           2 * u8_from_bool(ret[2]) + u8_from_bool(ret[1])
               = u8_from_bool(ret[3]) + u8_from_bool(ret[4])
    /\ call = "full_adder" =>
           2 * u8_from_bool(ret[2]) + u8_from_bool(ret[1])
               = u8_from_bool(ret[3]) + u8_from_bool(ret[4]) + u8_from_bool(ret[5])
    /\ call = "add_with_carry" =>
           \E left \in {Byte_from(args[1])}, right \in {Byte_from(args[2])},
              carries \in {[i \in 0 .. 8 |->
                               Bit_from(C26_CarryInto(args[1], args[2],
                                                      u8_from_bool(ret[3]), i) = 1)] @@ <<>>} :
               /\ carries[0] = ret[3]
               /\ \A i \in BitIndex :
                      /\ full_adder(left[i], right[i], carries[i])
                             = <<ret[1][i], carries[i + 1]>>
                      /\ u8_from_bool(ret[1][i])
                             = (BitOfInt(args[1], i) + BitOfInt(args[2], i)
                                    + u8_from_bool(carries[i])) % 2
               /\ ret[2] = carries[8]
               /\ u8_from_bool(ret[2]) = (args[1] + args[2] + u8_from_bool(ret[3])) \div 256

\* 1 + 1 + 1 = 3 in the full adder
C26_Witness ==
    /\ call = "full_adder"
    /\ ret = <<High, High, High, High, High>>

\* 1 + 1 = 2 in the half adder
C26_WitnessHalf ==
    /\ call = "half_adder"
    /\ ret = <<Low, High, High, High>>

\* 127 + 1: the carry of position 0 reaches position 7 and stops there
C26_WitnessRipple ==
    /\ call = "add_with_carry"
    /\ args = <<127, 1>>
    /\ ret[3] = Low
    /\ u8_from(ret[1]) = 128
    /\ ret[2] = Low

(***************************************************************************)
(* C27. For all bytes x and y and every position i, bit i of nand, and,    *)
(* or, nor, xnor and xor of x and y is the gate of that name on bit i of x *)
(* and bit i of y, and bit i of not(x) is the complement of bit i of x: no *)
(* bit of the result depends on another position.  As integers, and, or    *)
(* and xor are the bitwise &, | and ^ and not(x) is 255 - x.               *)
(***************************************************************************)
\* the truth table of the gate a call names, on bits as 0 and 1
C27_Gate(name, a, b) ==
    CASE name = "Byte::nand" -> TNand(a, b)
      [] name = "Byte::and" -> TAnd(a, b)
      [] name = "Byte::or" -> TOr(a, b)
      [] name = "Byte::nor" -> TNor(a, b)
      [] name = "Byte::xnor" -> TXnor(a, b)
      [] name = "Byte::xor" -> TXor(a, b)
      [] name = "Byte::not" -> 1 - a

\* x & y, x | y and x ^ y from the digits of x and y in base 2, position by
\* position from the lowest
RECURSIVE C27_Native(_, _, _)
C27_Native(name, x, y) ==
    IF x = 0 /\ y = 0
    THEN 0
    ELSE C27_Gate(name, x % 2, y % 2) + 2 * C27_Native(name, x \div 2, y \div 2)

C27_Bitwise ==
    call # "none" =>
        /\ \A i \in BitIndex :
               u8_from_bool(ret[i])
                   = C27_Gate(call, BitOfInt(args[1], i), BitOfInt(args[2], i))
        /\ DOMAIN ret = BitIndex
        /\ call \in {"Byte::and", "Byte::or", "Byte::xor"} =>
               u8_from(ret) = C27_Native(call, args[1], args[2])
        /\ call = "Byte::not" => u8_from(ret) = 255 - args[1]

\* 202 ^ 15 = 197: the bits differ from position to position
C27_Witness ==
    /\ call = "Byte::xor"
    /\ args = <<202, 15>>
    /\ u8_from(ret) = 197

C27_WitnessNot ==
    /\ call = "Byte::not"
    /\ args[1] = 202
    /\ u8_from(ret) = 53

====
